---- MODULE Spec2Model ----
(***************************************************************************)
(* persia: a key-value store whose values live in a memory-mapped file.    *)
(*                                                                         *)
(* The model follows class persia::storage (the tagged-record store,       *)
(* "Variant A") over persia::mapped_file.  mapped_file has two platform    *)
(* branches; the branch under #if defined(_WIN32) is the one modelled: the *)
(* other branch names PROT_RDWR and MMAP_FAILED, which no header declares, *)
(* so it produces no program.  A view obtained with MapViewOfFile          *)
(* (FILE_MAP_WRITE) of a file mapping is coherent with the file: a store   *)
(* through the view is the content a later mapping of the file reads.      *)
(* Hence the variables header and records are both the bytes of the file   *)
(* and the memory behind header_ and records_ of a live store.             *)
(***************************************************************************)
EXTENDS Integers, Sequences, FiniteSets, TLC

(* Bounds of the model. *)
MaxCapacity == 2
MaxKey == 1
MaxData == 1
MaxObjects == 3    \* mapped_file objects that exist at one time
MaxCreates == 2    \* calls of mapped_file::create that open the file
MaxCount == 4      \* linked-ring store: the header's size word stays within
                   \* -MaxCount .. MaxCount

(* Layout constants for storage<int, item> with item = {int key; int data}. *)
HeaderSize == 16
RecordSize == 16
ItemSize == 8
ValidSignature == <<218, 26, 241, 30>>
(* enum marker, as the four bytes of its std::uint32_t in the file          *)
(* (little-endian): empty = 0, occupied = 0xFEEDDA1A.                       *)
marker_empty == <<0, 0, 0, 0>>
marker_occupied == <<26, 218, 237, 254>>

Keys == 0..MaxKey
Data == 0..MaxData
Values == [key : Keys, data : Data]
Capacities == 0..MaxCapacity

key_of(v) == v.key

(* Bytes produced by resize_file are zero; a zero record is also what      *)
(* new(record) detail::record<V>{} writes.                                 *)
ZeroValue == [key |-> 0, data |-> 0]
ZeroRecord == [marker |-> marker_empty, data |-> ZeroValue]
ZeroHeader == [signature |-> <<0, 0, 0, 0>>, item_size |-> 0, capacity |-> 0, size |-> 0]

EmptyMap == [k \in {} |-> 0]
NoRecords == [i \in {} |-> ZeroRecord]
Put(f, k, v) == [x \in (DOMAIN f) \cup {k} |-> IF x = k THEN v ELSE f[x]]
Remove(f, k) == [x \in (DOMAIN f) \ {k} |-> f[x]]
Back(s) == s[Len(s)]
PopBack(s) == SubSeq(s, 1, Len(s) - 1)
Range(s) == {s[i] : i \in DOMAIN s}
Orders(S) == {s \in [1..Cardinality(S) -> S] : Range(s) = S}

VARIABLES
    path_exists,        \* the file at path exists
    path_size,          \* its length in bytes
    header,             \* detail::header at offset 0 of the file
    records,            \* detail::record<V>[] at offset sizeof(header)
    mapped_file_,       \* storage::mapped_file_ holds a mapping (operator bool)
    occupied_indices_,  \* storage::occupied_indices_ : key -> index
    free_indices_,      \* storage::free_indices_ : vector of indices
    free_capacity,      \* free_indices_.capacity()
    result,             \* the last call: its name, argument and return value
    written,            \* history: key -> value last written and not since erased
    cleared,            \* history: the inserts accepted since clear() when no
                        \* other call came between, else -1
    modified,           \* history: the key whose value was last written through
                        \* the pointer find returns, when no call but a drop
                        \* or an open came after, else -1
    freed,              \* history, kept where freed.kept: the slot the latest
                        \* successful erase pushed onto free_indices_, while
                        \* no key has taken it and the store was not cleared
                        \* or closed, else -1
    disk,               \* under a MAP_PRIVATE view: the header and records the
                        \* file itself holds; not used by the _WIN32 branch
    objects,            \* the mapped_file objects: alive, address_, mapping_, file_
    handles,            \* per mapped_file::create call: what became of the
                        \* file handle, the mapping handle and the view
    opening,            \* storage::open in progress: its step, its locals
    last,               \* the last mapped_file operation and what its target held
    linked_path,        \* linked-ring store: the file at its path, in 32-bit words
    storage_,           \* map::storage_ : file_, records_ (word offset) and,
                        \* as history, the slots add returned, latest first
    indices_,           \* map::indices_ : key -> storage_index
    map_result          \* the last call on class map

handle_vars == <<objects, handles, opening, last>>
map_vars == <<linked_path, storage_, indices_, map_result>>
storage_vars == <<path_exists, path_size, header, records, mapped_file_,
                  occupied_indices_, free_indices_, free_capacity, result,
                  written, cleared, modified, freed, disk>>
vars == <<storage_vars, handle_vars, map_vars>>

file_vars == <<path_exists, path_size, header, records>>
store_vars == <<mapped_file_, occupied_indices_, free_indices_, free_capacity>>

(* ---- observers of class storage ---- *)
capacity == free_capacity
size == Cardinality(DOMAIN occupied_indices_)
empty == (DOMAIN occupied_indices_ = {})
fully_occupied == (free_indices_ = <<>>)
find(k) == IF k \in DOMAIN occupied_indices_
           THEN <<records[occupied_indices_[k]].data>>
           ELSE <<>>
(* begin() .. end(): one entry per element of occupied_indices_, each       *)
(* dereferenced as records_[index].data; the order is the hash map's.       *)
Iterations == {[n \in DOMAIN o |-> records[occupied_indices_[o[n]]].data] :
                  o \in Orders(DOMAIN occupied_indices_)}
Contents == [k \in DOMAIN occupied_indices_ |-> records[occupied_indices_[k]].data]

(* The slot of the latest free_indices_.push_back(index) of erase, as long  *)
(* as no try_emplace(key, index) has put it into occupied_indices_.         *)
latest_freed ==
    [freed EXCEPT !.slot =
        IF ~freed.kept \/ ~mapped_file_' THEN -1
        ELSE IF result'.op = "erase"
        THEN IF result'.ok THEN occupied_indices_[result'.arg] ELSE @
        ELSE IF result'.op \in {"insert", "insert_or_assign", "updating"}
        THEN IF @ \in Range(occupied_indices_') THEN -1 ELSE @
        ELSE -1]

(* The record of a call: prior is size() before an operation of the store, *)
(* and the capacity field of the header before create and open.            *)
Ret(op, arg, prior, ok, error) ==
    [op |-> op, arg |-> arg, prior |-> prior, ok |-> ok, error |-> error]
NoStore == /\ mapped_file_' = FALSE
           /\ occupied_indices_' = EmptyMap
           /\ free_indices_' = <<>>
           /\ free_capacity' = 0

(* ---- the state of mapped_file objects and of what the system lends ---- *)
(* A mapped_file holds address_, mapping_ and file_; 0 stands for nullptr,  *)
(* NULL and INVALID_HANDLE_VALUE, n > 0 for what the n-th call of           *)
(* mapped_file::create obtained.  Each of the three is "none" before it is  *)
(* obtained, "held" until UnmapViewOfFile or CloseHandle is called on it,   *)
(* then "released", and "twice" once it is released again.                  *)
Objects == 1..MaxObjects
Creates == 1..MaxCreates
NoObject == [alive |-> FALSE, address_ |-> 0, mapping_ |-> 0, file_ |-> 0]
DefaultObject == [alive |-> TRUE, address_ |-> 0, mapping_ |-> 0, file_ |-> 0]
NoHandles == [outcome |-> "unused", file |-> "none", mapping |-> "none",
              view |-> "none"]
NotOpening == [step |-> "none", locals |-> {}, views |-> {}]

HandleInit ==
    /\ objects = [o \in Objects |-> NoObject]
    /\ handles = [n \in Creates |-> NoHandles]
    /\ opening = NotOpening
    /\ last = [op |-> "none", object |-> 0, held |-> 0]

(* ---- the linked-ring store (detail::storage<T> under class map) ----     *)
(* Its file is kept as 32-bit words, so that two pointers that name the    *)
(* same bytes name the same words.                                          *)
NoFile == [exists |-> FALSE, words |-> <<>>]
NoStorage == [file_ |-> FALSE, records_ |-> 0, added |-> <<>>]
MapRet(op, arg, ok, error) == [op |-> op, arg |-> arg, ok |-> ok, error |-> error]

MapInit ==
    /\ linked_path = NoFile
    /\ storage_ = NoStorage
    /\ indices_ = EmptyMap
    /\ map_result = MapRet("none", 0, TRUE, "ok")

Init ==
    /\ path_exists = FALSE
    /\ path_size = 0
    /\ header = ZeroHeader
    /\ records = NoRecords
    /\ mapped_file_ = FALSE
    /\ occupied_indices_ = EmptyMap
    /\ free_indices_ = <<>>
    /\ free_capacity = 0
    /\ result = Ret("none", 0, 0, TRUE, "ok")
    /\ written = EmptyMap
    /\ cleared = -1
    /\ modified = -1
    /\ freed = [kept |-> FALSE, slot |-> -1]
    /\ disk = [header |-> ZeroHeader, records |-> NoRecords]
    /\ HandleInit
    /\ MapInit

(* ---- mapped_file::create(path), _WIN32 branch ----                       *)
(* CreateFileA(OPEN_EXISTING) fails when the file is missing;               *)
(* CreateFileMapping with a zero maximum size fails on a file of length 0   *)
(* (ERROR_FILE_INVALID); os_fails stands for any other failure of           *)
(* CreateFileA, CreateFileMapping or MapViewOfFile.                         *)
mapped_file_create(exists, length, os_fails) ==
    IF ~exists THEN "os_error"
    ELSE IF os_fails THEN "os_error"
    ELSE IF length = 0 THEN "os_error"
    ELSE "ok"

(* std::filesystem::resize_file upward: the new bytes read as zero. *)
resized(recs, n) == [i \in 0..(n - 1) |-> IF i \in DOMAIN recs THEN recs[i] ELSE ZeroRecord]

(* a scan that takes every marker but occupied for empty *)
RECURSIVE scan_takes_other_as_empty(_, _, _, _, _)
scan_takes_other_as_empty(recs, n, i, occ, free) ==
    IF i = n THEN [error |-> "ok", occupied |-> occ, free |-> free]
    ELSE IF recs[i].marker = marker_occupied
         THEN scan_takes_other_as_empty(recs, n, i + 1,
                                        Put(occ, key_of(recs[i].data), i), free)
    ELSE scan_takes_other_as_empty(recs, n, i + 1, occ, Append(free, i))

(* The marker scan shared by open and expand: for(i = 0; i != n; ++i)       *)
(* switch(record->marker).                                                  *)
RECURSIVE scan(_, _, _, _, _)
scan(recs, n, i, occ, free) ==
    IF i = n THEN [error |-> "ok", occupied |-> occ, free |-> free]
    ELSE IF recs[i].marker = marker_empty
         THEN scan(recs, n, i + 1, occ, Append(free, i))
    ELSE IF recs[i].marker = marker_occupied
         THEN scan(recs, n, i + 1, Put(occ, key_of(recs[i].data), i), free)
    ELSE [error |-> "file_is_corrupted", occupied |-> EmptyMap, free |-> <<>>]

(* What a call leaves behind: the file, the store (if any), the error.      *)
Failed(error, len, hdr, recs) ==
    [error |-> error, path_size |-> len, header |-> hdr, records |-> recs,
     occupied |-> EmptyMap, free |-> <<>>, reserved |-> 0]
Opened(len, hdr, recs, occ, free, reserved) ==
    [error |-> "ok", path_size |-> len, header |-> hdr, records |-> recs,
     occupied |-> occ, free |-> free, reserved |-> reserved]

(* expand that forgets header->capacity = initial_capacity *)
expand_keeps_header(initial_capacity, os) ==
    IF os = "resize_file" THEN Failed("os_error", path_size, header, records)
    ELSE
    LET len == HeaderSize + initial_capacity * RecordSize
        grown == resized(records, initial_capacity)
    IN  IF mapped_file_create(TRUE, len, os = "remap") # "ok"
        THEN Failed("os_error", len, header, grown)
        ELSE
        LET scanned == scan(grown, header.capacity, 0, EmptyMap, <<>>)
            fresh == [i \in 1..(initial_capacity - header.capacity)
                          |-> header.capacity + i - 1]
        IN  IF scanned.error # "ok"
            THEN Failed(scanned.error, len, header, grown)
            ELSE Opened(len,
                        header,
                        [i \in DOMAIN grown |->
                            IF i >= header.capacity THEN ZeroRecord ELSE grown[i]],
                        scanned.occupied,
                        scanned.free \o fresh,
                        initial_capacity)

(* ---- storage::expand(path, initial_capacity) ---- *)
expand(initial_capacity, os) ==
    IF os = "resize_file" THEN Failed("os_error", path_size, header, records)
    ELSE
    LET len == HeaderSize + initial_capacity * RecordSize
        grown == resized(records, initial_capacity)
    IN  IF mapped_file_create(TRUE, len, os = "remap") # "ok"
        THEN Failed("os_error", len, header, grown)
        ELSE
        LET scanned == scan(grown, header.capacity, 0, EmptyMap, <<>>)
            fresh == [i \in 1..(initial_capacity - header.capacity)
                          |-> header.capacity + i - 1]
        IN  IF scanned.error # "ok"
            THEN Failed(scanned.error, len, header, grown)
            ELSE Opened(len,
                        [header EXCEPT !.capacity = initial_capacity],
                        [i \in DOMAIN grown |->
                            IF i >= header.capacity THEN ZeroRecord ELSE grown[i]],
                        scanned.occupied,
                        scanned.free \o fresh,
                        initial_capacity)

(* open that reserves and scans the requested number of records *)
open_outcome_scans_requested(initial_capacity, os) ==
    IF mapped_file_create(path_exists, path_size, os = "mapped_file") # "ok"
    THEN Failed("os_error", path_size, header, records)
    ELSE IF path_size < HeaderSize + RecordSize
    THEN Failed("file_size_is_too_small", path_size, header, records)
    ELSE IF header.signature # ValidSignature
    THEN Failed("invalid_file_signature", path_size, header, records)
    ELSE IF path_size # HeaderSize + header.capacity * RecordSize
    THEN Failed("mismatch_file_size", path_size, header, records)
    ELSE IF ItemSize # header.item_size
    THEN Failed("mismatch_item_size", path_size, header, records)
    ELSE IF initial_capacity > header.capacity
    THEN expand(initial_capacity, os)
    ELSE
    LET scanned == scan(records, initial_capacity, 0, EmptyMap, <<>>)
    IN  IF scanned.error # "ok"
        THEN Failed(scanned.error, path_size, header, records)
        ELSE Opened(path_size, header, records,
                    scanned.occupied, scanned.free, initial_capacity)

(* open without the check of header->item_size *)
open_outcome_skips_item_size(initial_capacity, os) ==
    IF mapped_file_create(path_exists, path_size, os = "mapped_file") # "ok"
    THEN Failed("os_error", path_size, header, records)
    ELSE IF path_size < HeaderSize + RecordSize
    THEN Failed("file_size_is_too_small", path_size, header, records)
    ELSE IF header.signature # ValidSignature
    THEN Failed("invalid_file_signature", path_size, header, records)
    ELSE IF path_size # HeaderSize + header.capacity * RecordSize
    THEN Failed("mismatch_file_size", path_size, header, records)
    ELSE IF initial_capacity > header.capacity
    THEN expand(initial_capacity, os)
    ELSE
    LET scanned == scan(records, header.capacity, 0, EmptyMap, <<>>)
    IN  IF scanned.error # "ok"
        THEN Failed(scanned.error, path_size, header, records)
        ELSE Opened(path_size, header, records,
                    scanned.occupied, scanned.free, header.capacity)

(* open without the check of the size of the file against the capacity *)
open_outcome_skips_file_size(initial_capacity, os) ==
    IF mapped_file_create(path_exists, path_size, os = "mapped_file") # "ok"
    THEN Failed("os_error", path_size, header, records)
    ELSE IF path_size < HeaderSize + RecordSize
    THEN Failed("file_size_is_too_small", path_size, header, records)
    ELSE IF header.signature # ValidSignature
    THEN Failed("invalid_file_signature", path_size, header, records)
    ELSE IF ItemSize # header.item_size
    THEN Failed("mismatch_item_size", path_size, header, records)
    ELSE IF initial_capacity > header.capacity
    THEN expand(initial_capacity, os)
    ELSE
    LET scanned == scan(records, header.capacity, 0, EmptyMap, <<>>)
    IN  IF scanned.error # "ok"
        THEN Failed(scanned.error, path_size, header, records)
        ELSE Opened(path_size, header, records,
                    scanned.occupied, scanned.free, header.capacity)

(* ---- storage::open(path, initial_capacity) ---- *)
open_outcome(initial_capacity, os) ==
    IF mapped_file_create(path_exists, path_size, os = "mapped_file") # "ok"
    THEN Failed("os_error", path_size, header, records)
    ELSE IF path_size < HeaderSize + RecordSize
    THEN Failed("file_size_is_too_small", path_size, header, records)
    ELSE IF header.signature # ValidSignature
    THEN Failed("invalid_file_signature", path_size, header, records)
    ELSE IF path_size # HeaderSize + header.capacity * RecordSize
    THEN Failed("mismatch_file_size", path_size, header, records)
    ELSE IF ItemSize # header.item_size
    THEN Failed("mismatch_item_size", path_size, header, records)
    ELSE IF initial_capacity > header.capacity
    THEN expand(initial_capacity, os)
    ELSE
    LET scanned == scan(records, header.capacity, 0, EmptyMap, <<>>)
    IN  IF scanned.error # "ok"
        THEN Failed(scanned.error, path_size, header, records)
        ELSE Opened(path_size, header, records,
                    scanned.occupied, scanned.free, header.capacity)

(* create that forgets header->capacity = initial_capacity *)
create_outcome_skips_capacity(initial_capacity, os) ==
    IF initial_capacity = 0
    THEN Failed("file_size_is_too_small", path_size, header, records)
    ELSE IF os = "fopen"
    THEN Failed("os_error", path_size, header, records)
    ELSE IF os = "resize_file"
    THEN Failed("os_error", 0, ZeroHeader, NoRecords)
    ELSE
    LET len == HeaderSize + initial_capacity * RecordSize
        zeroed == resized(NoRecords, initial_capacity)
    IN  IF mapped_file_create(TRUE, len, os = "mapped_file") # "ok"
        THEN Failed("os_error", len, ZeroHeader, zeroed)
        ELSE Opened(len,
                    [ZeroHeader EXCEPT !.signature = ValidSignature,
                                       !.item_size = ItemSize],
                    zeroed,
                    EmptyMap,
                    [i \in 1..initial_capacity |-> i - 1],
                    initial_capacity)

(* ---- storage::create(path, initial_capacity) ---- *)
create_outcome(initial_capacity, os) ==
    IF initial_capacity = 0
    THEN Failed("file_size_is_too_small", path_size, header, records)
    ELSE IF os = "fopen"
    THEN Failed("os_error", path_size, header, records)
    ELSE IF os = "resize_file"
    THEN Failed("os_error", 0, ZeroHeader, NoRecords)
    ELSE
    LET len == HeaderSize + initial_capacity * RecordSize
        zeroed == resized(NoRecords, initial_capacity)
    IN  IF mapped_file_create(TRUE, len, os = "mapped_file") # "ok"
        THEN Failed("os_error", len, ZeroHeader, zeroed)
        ELSE Opened(len,
                    [ZeroHeader EXCEPT !.signature = ValidSignature,
                                       !.item_size = ItemSize,
                                       !.capacity = initial_capacity],
                    zeroed,
                    EmptyMap,
                    [i \in 1..initial_capacity |-> i - 1],
                    initial_capacity)

(* A static factory returns; the caller keeps the store it yields, if any. *)
Returned(op, arg, out) ==
    /\ path_size' = out.path_size
    /\ header' = out.header
    /\ records' = out.records
    /\ mapped_file_' = (out.error = "ok")
    /\ occupied_indices_' = out.occupied
    /\ free_indices_' = out.free
    /\ free_capacity' = out.reserved
    /\ result' = Ret(op, arg, header.capacity, out.error = "ok", out.error)

create(initial_capacity, os) ==
    /\ ~mapped_file_
    /\ path_exists' = (path_exists \/ (initial_capacity # 0 /\ os # "fopen"))
    /\ Returned("create", initial_capacity, create_outcome(initial_capacity, os))
    /\ written' = IF initial_capacity = 0 \/ os = "fopen" THEN written ELSE EmptyMap
    /\ cleared' = -1
    /\ modified' = -1
    /\ disk' = disk
    /\ freed' = latest_freed
    /\ UNCHANGED <<handle_vars, map_vars>>

(* open that makes the file when there is none, as fopen(path, "w+b") does *)
open_creates_file(initial_capacity, os) ==
    /\ ~mapped_file_
    /\ path_exists' = TRUE
    /\ Returned("open", initial_capacity, open_outcome(initial_capacity, os))
    /\ written' = written
    /\ cleared' = -1
    /\ modified' = modified
    /\ disk' = disk
    /\ freed' = latest_freed
    /\ UNCHANGED <<handle_vars, map_vars>>

open(initial_capacity, os) ==
    /\ ~mapped_file_
    /\ path_exists' = path_exists
    /\ Returned("open", initial_capacity, open_outcome(initial_capacity, os))
    /\ written' = written
    /\ cleared' = -1
    /\ modified' = modified
    /\ disk' = disk
    /\ freed' = latest_freed
    /\ UNCHANGED <<handle_vars, map_vars>>

(* a destructor that removes the file it was mapped from *)
drop_removes_file ==
    /\ mapped_file_
    /\ NoStore
    /\ result' = Ret("drop", 0, size, TRUE, "ok")
    /\ path_exists' = FALSE
    /\ path_size' = 0
    /\ header' = ZeroHeader
    /\ records' = NoRecords
    /\ written' = written
    /\ cleared' = -1
    /\ modified' = modified
    /\ disk' = disk
    /\ freed' = latest_freed
    /\ UNCHANGED <<handle_vars, map_vars>>

(* ---- ~storage(): the mapping is released, the file stays ---- *)
drop ==
    /\ mapped_file_
    /\ NoStore
    /\ result' = Ret("drop", 0, size, TRUE, "ok")
    /\ UNCHANGED <<file_vars, written>>
    /\ cleared' = -1
    /\ modified' = modified
    /\ disk' = disk
    /\ freed' = latest_freed
    /\ UNCHANGED <<handle_vars, map_vars>>

(* std::vector::push_back: the capacity stays while the element fits and    *)
(* grows geometrically otherwise.                                           *)
grown_capacity(length, reserved) ==
    IF length < reserved THEN reserved
    ELSE IF reserved + reserved \div 2 > length THEN reserved + reserved \div 2
    ELSE length + 1

Bool(op, arg, ok) == Ret(op, arg, size, ok, IF ok THEN "ok" ELSE "false")

(* insert that appends a record to the file when no slot is free *)
insert_grows_when_full(value) ==
    /\ mapped_file_
    /\ LET key == key_of(value)
           index == IF free_indices_ = <<>> THEN header.capacity
                    ELSE Back(free_indices_)
       IN  /\ free_indices_' = IF free_indices_ = <<>> THEN <<>>
                               ELSE PopBack(free_indices_)
           /\ IF free_indices_ = <<>>
              THEN /\ header' = [header EXCEPT !.capacity = header.capacity + 1]
                   /\ path_size' = path_size + RecordSize
                   /\ free_capacity' = free_capacity + 1
              ELSE UNCHANGED <<header, path_size, free_capacity>>
           /\ IF key \in DOMAIN occupied_indices_
              THEN /\ result' = Bool("insert", value, FALSE)
                   /\ records' = resized(records, header'.capacity)
                   /\ UNCHANGED <<occupied_indices_, written>>
              ELSE /\ occupied_indices_' = Put(occupied_indices_, key, index)
                   /\ records' = [resized(records, header'.capacity) EXCEPT ![index] =
                          [marker |-> marker_occupied, data |-> value]]
                   /\ result' = Bool("insert", value, TRUE)
                   /\ written' = Put(written, key, value)
           /\ UNCHANGED <<path_exists, mapped_file_>>
    /\ cleared' = IF cleared >= 0 /\ result'.ok THEN cleared + 1 ELSE -1
    /\ modified' = -1
    /\ disk' = disk
    /\ freed' = latest_freed
    /\ UNCHANGED <<handle_vars, map_vars>>

(* insert that registers the key before it looks for a free slot *)
insert_emplaces_first(value) ==
    /\ mapped_file_
    /\ LET key == key_of(value)
       IN  IF key \in DOMAIN occupied_indices_
           THEN /\ result' = Bool("insert", value, FALSE)
                /\ UNCHANGED <<occupied_indices_, free_indices_, records, written>>
           ELSE IF free_indices_ = <<>>
           THEN /\ occupied_indices_' = Put(occupied_indices_, key, 0)
                /\ result' = Bool("insert", value, FALSE)
                /\ UNCHANGED <<free_indices_, records, written>>
           ELSE LET index == Back(free_indices_)
                IN  /\ free_indices_' = PopBack(free_indices_)
                    /\ occupied_indices_' = Put(occupied_indices_, key, index)
                    /\ records' = [records EXCEPT ![index] =
                           [marker |-> marker_occupied, data |-> value]]
                    /\ result' = Bool("insert", value, TRUE)
                    /\ written' = Put(written, key, value)
    /\ UNCHANGED <<path_exists, path_size, header, mapped_file_, free_capacity>>
    /\ cleared' = IF cleared >= 0 /\ result'.ok THEN cleared + 1 ELSE -1
    /\ modified' = -1
    /\ disk' = disk
    /\ freed' = latest_freed
    /\ UNCHANGED <<handle_vars, map_vars>>

(* insert that assigns the index (operator []) instead of try_emplace *)
insert_overwrites(value) ==
    /\ mapped_file_
    /\ IF free_indices_ = <<>>
       THEN /\ result' = Bool("insert", value, FALSE)
            /\ UNCHANGED <<file_vars, store_vars, written>>
       ELSE LET index == Back(free_indices_)
                key == key_of(value)
            IN  /\ free_indices_' = PopBack(free_indices_)
                /\ occupied_indices_' = Put(occupied_indices_, key, index)
                /\ records' = [records EXCEPT ![index] =
                       [marker |-> marker_occupied, data |-> value]]
                /\ result' = Bool("insert", value, TRUE)
                /\ written' = Put(written, key, value)
                /\ UNCHANGED <<path_exists, path_size, header, mapped_file_,
                               free_capacity>>
    /\ cleared' = IF cleared >= 0 /\ result'.ok THEN cleared + 1 ELSE -1
    /\ modified' = -1
    /\ disk' = disk
    /\ freed' = latest_freed
    /\ UNCHANGED <<handle_vars, map_vars>>

(* insert that reads free_indices_.back() and forgets pop_back() *)
insert_keeps_free(value) ==
    /\ mapped_file_
    /\ IF free_indices_ = <<>>
       THEN /\ result' = Bool("insert", value, FALSE)
            /\ UNCHANGED <<file_vars, store_vars, written>>
       ELSE LET index == Back(free_indices_)
                key == key_of(value)
            IN  /\ IF key \in DOMAIN occupied_indices_
                   THEN /\ result' = Bool("insert", value, FALSE)
                        /\ UNCHANGED <<occupied_indices_, records, written>>
                   ELSE /\ occupied_indices_' = Put(occupied_indices_, key, index)
                        /\ records' = [records EXCEPT ![index] =
                               [marker |-> marker_occupied, data |-> value]]
                        /\ result' = Bool("insert", value, TRUE)
                        /\ written' = Put(written, key, value)
                /\ UNCHANGED <<path_exists, path_size, header, mapped_file_,
                               free_indices_, free_capacity>>
    /\ cleared' = IF cleared >= 0 /\ result'.ok THEN cleared + 1 ELSE -1
    /\ modified' = -1
    /\ disk' = disk
    /\ freed' = latest_freed
    /\ UNCHANGED <<handle_vars, map_vars>>

(* ---- bool storage::insert(Value const&) ---- *)
insert(value) ==
    /\ mapped_file_
    /\ IF free_indices_ = <<>>
       THEN /\ result' = Bool("insert", value, FALSE)
            /\ UNCHANGED <<file_vars, store_vars, written>>
       ELSE LET index == Back(free_indices_)
                key == key_of(value)
            IN  /\ free_indices_' = PopBack(free_indices_)
                /\ IF key \in DOMAIN occupied_indices_
                   THEN /\ result' = Bool("insert", value, FALSE)
                        /\ UNCHANGED <<occupied_indices_, records, written>>
                   ELSE /\ occupied_indices_' = Put(occupied_indices_, key, index)
                        /\ records' = [records EXCEPT ![index] =
                               [marker |-> marker_occupied, data |-> value]]
                        /\ result' = Bool("insert", value, TRUE)
                        /\ written' = Put(written, key, value)
                /\ UNCHANGED <<path_exists, path_size, header, mapped_file_,
                               free_capacity>>
    /\ cleared' = IF cleared >= 0 /\ result'.ok THEN cleared + 1 ELSE -1
    /\ modified' = -1
    /\ disk' = disk
    /\ freed' = latest_freed
    /\ UNCHANGED <<handle_vars, map_vars>>

(* insert_or_assign that takes a new slot for a key it already holds *)
insert_or_assign_reallocates(value) ==
    /\ mapped_file_
    /\ LET key == key_of(value)
       IN  IF free_indices_ = <<>>
           THEN IF key \in DOMAIN occupied_indices_
                THEN /\ records' = [records EXCEPT ![occupied_indices_[key]].data = value]
                     /\ result' = Bool("insert_or_assign", value, TRUE)
                     /\ written' = Put(written, key, value)
                     /\ UNCHANGED <<occupied_indices_, free_indices_>>
                ELSE /\ result' = Bool("insert_or_assign", value, FALSE)
                     /\ UNCHANGED <<occupied_indices_, free_indices_, records, written>>
           ELSE LET index == Back(free_indices_)
                IN  /\ free_indices_' = PopBack(free_indices_)
                    /\ occupied_indices_' = Put(occupied_indices_, key, index)
                    /\ records' = [i \in DOMAIN records |->
                          IF i = index
                          THEN [marker |-> marker_occupied, data |-> value]
                          ELSE IF key \in DOMAIN occupied_indices_
                                  /\ i = occupied_indices_[key]
                          THEN [records[i] EXCEPT !.marker = marker_empty]
                          ELSE records[i]]
                    /\ result' = Bool("insert_or_assign", value, TRUE)
                    /\ written' = Put(written, key, value)
    /\ UNCHANGED <<path_exists, path_size, header, mapped_file_, free_capacity>>
    /\ cleared' = -1
    /\ modified' = -1
    /\ disk' = disk
    /\ freed' = latest_freed
    /\ UNCHANGED <<handle_vars, map_vars>>

(* ---- bool storage::insert_or_assign(Value const&) ---- *)
insert_or_assign(value) ==
    /\ mapped_file_
    /\ LET key == key_of(value)
       IN  IF key \notin DOMAIN occupied_indices_
           THEN IF free_indices_ = <<>>
                THEN /\ result' = Bool("insert_or_assign", value, FALSE)
                     /\ UNCHANGED <<occupied_indices_, free_indices_, records, written>>
                ELSE LET index == Back(free_indices_)
                     IN  /\ free_indices_' = PopBack(free_indices_)
                         /\ occupied_indices_' = Put(occupied_indices_, key, index)
                         /\ records' = [records EXCEPT ![index] =
                                [marker |-> marker_occupied, data |-> value]]
                         /\ result' = Bool("insert_or_assign", value, TRUE)
                         /\ written' = Put(written, key, value)
           ELSE LET index == occupied_indices_[key]
                IN  /\ records' = [records EXCEPT ![index].data = value]
                    /\ result' = Bool("insert_or_assign", value, TRUE)
                    /\ written' = Put(written, key, value)
                    /\ UNCHANGED <<occupied_indices_, free_indices_>>
    /\ UNCHANGED <<path_exists, path_size, header, mapped_file_, free_capacity>>
    /\ cleared' = -1
    /\ modified' = -1
    /\ disk' = disk
    /\ freed' = latest_freed
    /\ UNCHANGED <<handle_vars, map_vars>>

(* erase that forgets record->marker = marker::empty *)
erase_keeps_marker(key) ==
    /\ mapped_file_
    /\ IF key \notin DOMAIN occupied_indices_
       THEN /\ result' = Bool("erase", key, FALSE)
            /\ UNCHANGED <<file_vars, store_vars, written>>
       ELSE LET index == occupied_indices_[key]
            IN  /\ free_capacity' = grown_capacity(Len(free_indices_), free_capacity)
                /\ free_indices_' = Append(free_indices_, index)
                /\ occupied_indices_' = Remove(occupied_indices_, key)
                /\ result' = Bool("erase", key, TRUE)
                /\ written' = Remove(written, key)
                /\ UNCHANGED <<file_vars, mapped_file_>>
    /\ cleared' = -1
    /\ modified' = -1
    /\ disk' = disk
    /\ freed' = latest_freed
    /\ UNCHANGED <<handle_vars, map_vars>>

(* erase that forgets free_indices_.push_back(index) *)
erase_drops_slot(key) ==
    /\ mapped_file_
    /\ IF key \notin DOMAIN occupied_indices_
       THEN /\ result' = Bool("erase", key, FALSE)
            /\ UNCHANGED <<file_vars, store_vars, written>>
       ELSE LET index == occupied_indices_[key]
            IN  /\ records' = [records EXCEPT ![index].marker = marker_empty]
                /\ occupied_indices_' = Remove(occupied_indices_, key)
                /\ result' = Bool("erase", key, TRUE)
                /\ written' = Remove(written, key)
                /\ UNCHANGED <<path_exists, path_size, header, mapped_file_,
                               free_indices_, free_capacity>>
    /\ cleared' = -1
    /\ modified' = -1
    /\ disk' = disk
    /\ freed' = latest_freed
    /\ UNCHANGED <<handle_vars, map_vars>>

(* erase that forgets occupied_indices_.erase(it) *)
erase_keeps_index(key) ==
    /\ mapped_file_
    /\ IF key \notin DOMAIN occupied_indices_
       THEN /\ result' = Bool("erase", key, FALSE)
            /\ UNCHANGED <<file_vars, store_vars, written>>
       ELSE LET index == occupied_indices_[key]
            IN  /\ free_capacity' = grown_capacity(Len(free_indices_), free_capacity)
                /\ free_indices_' = Append(free_indices_, index)
                /\ records' = [records EXCEPT ![index].marker = marker_empty]
                /\ result' = Bool("erase", key, TRUE)
                /\ written' = Remove(written, key)
                /\ UNCHANGED <<path_exists, path_size, header, mapped_file_,
                               occupied_indices_>>
    /\ cleared' = -1
    /\ modified' = -1
    /\ disk' = disk
    /\ freed' = latest_freed
    /\ UNCHANGED <<handle_vars, map_vars>>

(* ---- bool storage::erase(Key const&) ---- *)
erase(key) ==
    /\ mapped_file_
    /\ IF key \notin DOMAIN occupied_indices_
       THEN /\ result' = Bool("erase", key, FALSE)
            /\ UNCHANGED <<file_vars, store_vars, written>>
       ELSE LET index == occupied_indices_[key]
            IN  /\ free_capacity' = grown_capacity(Len(free_indices_), free_capacity)
                /\ free_indices_' = Append(free_indices_, index)
                /\ records' = [records EXCEPT ![index].marker = marker_empty]
                /\ occupied_indices_' = Remove(occupied_indices_, key)
                /\ result' = Bool("erase", key, TRUE)
                /\ written' = Remove(written, key)
                /\ UNCHANGED <<path_exists, path_size, header, mapped_file_>>
    /\ cleared' = -1
    /\ modified' = -1
    /\ disk' = disk
    /\ freed' = latest_freed
    /\ UNCHANGED <<handle_vars, map_vars>>

(* ---- void storage::clear() ----                                          *)
(* The loop runs over occupied_indices_ in the hash map's order.            *)
RECURSIVE pushed_capacity(_, _, _)
pushed_capacity(length, n, reserved) ==
    IF n = 0 THEN reserved
    ELSE pushed_capacity(length + 1, n - 1, grown_capacity(length, reserved))

(* clear that forgets occupied_indices_.clear() *)
clear_keeps_index ==
    /\ mapped_file_
    /\ \E order \in Orders(DOMAIN occupied_indices_) :
          free_indices_' = free_indices_ \o
                           [n \in DOMAIN order |-> occupied_indices_[order[n]]]
    /\ records' = [i \in DOMAIN records |->
                      IF \E k \in DOMAIN occupied_indices_ : occupied_indices_[k] = i
                      THEN [records[i] EXCEPT !.marker = marker_empty]
                      ELSE records[i]]
    /\ free_capacity' = pushed_capacity(Len(free_indices_), size, free_capacity)
    /\ result' = Ret("clear", 0, size, TRUE, "ok")
    /\ written' = EmptyMap
    /\ UNCHANGED <<path_exists, path_size, header, mapped_file_, occupied_indices_>>
    /\ cleared' = 0
    /\ modified' = -1
    /\ disk' = disk
    /\ freed' = latest_freed
    /\ UNCHANGED <<handle_vars, map_vars>>

(* clear that leaves the markers of the records as they are *)
clear_keeps_markers ==
    /\ mapped_file_
    /\ \E order \in Orders(DOMAIN occupied_indices_) :
          free_indices_' = free_indices_ \o
                           [n \in DOMAIN order |-> occupied_indices_[order[n]]]
    /\ records' = records
    /\ occupied_indices_' = EmptyMap
    /\ free_capacity' = pushed_capacity(Len(free_indices_), size, free_capacity)
    /\ result' = Ret("clear", 0, size, TRUE, "ok")
    /\ written' = EmptyMap
    /\ UNCHANGED <<path_exists, path_size, header, mapped_file_>>
    /\ cleared' = 0
    /\ modified' = -1
    /\ disk' = disk
    /\ freed' = latest_freed
    /\ UNCHANGED <<handle_vars, map_vars>>

clear ==
    /\ mapped_file_
    /\ \E order \in Orders(DOMAIN occupied_indices_) :
          free_indices_' = free_indices_ \o
                           [n \in DOMAIN order |-> occupied_indices_[order[n]]]
    /\ records' = [i \in DOMAIN records |->
                      IF \E k \in DOMAIN occupied_indices_ : occupied_indices_[k] = i
                      THEN [records[i] EXCEPT !.marker = marker_empty]
                      ELSE records[i]]
    /\ free_capacity' = pushed_capacity(Len(free_indices_), size, free_capacity)
    /\ occupied_indices_' = EmptyMap
    /\ result' = Ret("clear", 0, size, TRUE, "ok")
    /\ written' = EmptyMap
    /\ UNCHANGED <<path_exists, path_size, header, mapped_file_>>
    /\ cleared' = 0
    /\ modified' = -1
    /\ disk' = disk
    /\ freed' = latest_freed
    /\ UNCHANGED <<handle_vars, map_vars>>

(* a store through the pointer that lands in a copy of the page, as in a   *)
(* copy-on-write view, and not in the file                                  *)
updating_writes_copy(key, data) ==
    /\ mapped_file_
    /\ IF key \notin DOMAIN occupied_indices_
       THEN /\ result' = Bool("updating", key, FALSE)
            /\ modified' = -1
            /\ UNCHANGED <<records, written>>
       ELSE LET index == occupied_indices_[key]
            IN  /\ records' = records
                /\ result' = Bool("updating", key, TRUE)
                /\ modified' = key
                /\ written' = Put(written, key, [records[index].data EXCEPT !.data = data])
    /\ UNCHANGED <<path_exists, path_size, header, store_vars, disk>>
    /\ freed' = latest_freed
    /\ UNCHANGED <<handle_vars, map_vars>>
    /\ cleared' = -1

(* ---- auto* item = find(key); item->data = data; ----                     *)
(* find returns &records_[index].data, a pointer into the view, or nullptr  *)
(* for a key that is not indexed; the caller stores a field through it.     *)
updating(key, data) ==
    /\ mapped_file_
    /\ IF key \notin DOMAIN occupied_indices_
       THEN /\ result' = Bool("updating", key, FALSE)
            /\ modified' = -1
            /\ UNCHANGED <<records, written>>
       ELSE LET index == occupied_indices_[key]
            IN  /\ records' = [records EXCEPT ![index].data.data = data]
                /\ result' = Bool("updating", key, TRUE)
                /\ modified' = key
                /\ written' = Put(written, key, [records[index].data EXCEPT !.data = data])
    /\ UNCHANGED <<path_exists, path_size, header, store_vars, disk>>
    /\ freed' = latest_freed
    /\ UNCHANGED <<handle_vars, map_vars>>
    /\ cleared' = -1

(* ---- storage::open: the checks of the mapped file, in their order ---- *)
format_error ==
    IF path_size < HeaderSize + RecordSize THEN "file_size_is_too_small"
    ELSE IF header.signature # ValidSignature THEN "invalid_file_signature"
    ELSE IF path_size # HeaderSize + header.capacity * RecordSize
    THEN "mismatch_file_size"
    ELSE IF ItemSize # header.item_size THEN "mismatch_item_size"
    ELSE "ok"

(* ---- storage::expand, when the process stops after fs::resize_file has  *)
(* returned and before header->capacity = initial_capacity: the file has   *)
(* its new length, the new bytes are zero, the header is as it was.        *)
expand_stopped(initial_capacity) ==
    /\ ~mapped_file_
    /\ mapped_file_create(path_exists, path_size, FALSE) = "ok"
    /\ format_error = "ok"
    /\ initial_capacity > header.capacity
    /\ path_size' = HeaderSize + initial_capacity * RecordSize
    /\ records' = resized(records, initial_capacity)
    /\ result' = Ret("expand_stopped", initial_capacity, header.capacity,
                     FALSE, "stopped")
    /\ UNCHANGED <<path_exists, header, store_vars, written, disk>>
    /\ freed' = latest_freed
    /\ UNCHANGED <<handle_vars, map_vars>>
    /\ cleared' = -1
    /\ modified' = -1

CreateOs == {"ok", "fopen", "resize_file", "mapped_file"}
(* ---- storage::insert, when the process stops after record->marker =     *)
(* marker::occupied and before record->data = value: the record is tagged  *)
(* occupied and holds what it held before.  A stop before the marker is    *)
(* written leaves the file as a drop does, a stop after the value is       *)
(* written as an insert and a drop do.                                     *)
insert_stopped(value) ==
    /\ mapped_file_
    /\ free_indices_ # <<>>
    /\ key_of(value) \notin DOMAIN occupied_indices_
    /\ records' = [records EXCEPT ![Back(free_indices_)].marker = marker_occupied]
    /\ result' = Ret("insert_stopped", value, size, FALSE, "stopped")
    /\ NoStore
    /\ UNCHANGED <<path_exists, path_size, header, written, disk>>
    /\ cleared' = -1
    /\ modified' = -1
    /\ freed' = latest_freed
    /\ UNCHANGED <<handle_vars, map_vars>>

(* ---- storage::erase, when the process stops after                       *)
(* free_indices_.push_back(index) and before record->marker =              *)
(* marker::empty: nothing is written to the file.  A stop after the marker *)
(* is written leaves the file as an erase and a drop do.                   *)
erase_stopped(key) ==
    /\ mapped_file_
    /\ key \in DOMAIN occupied_indices_
    /\ result' = Ret("erase_stopped", key, size, FALSE, "stopped")
    /\ NoStore
    /\ UNCHANGED <<file_vars, written, disk>>
    /\ cleared' = -1
    /\ modified' = -1
    /\ freed' = latest_freed
    /\ UNCHANGED <<handle_vars, map_vars>>

OpenOs == {"ok", "mapped_file", "resize_file", "remap"}

Next ==
    \/ \E n \in Capacities, os \in CreateOs : create(n, os)
    \/ \E n \in Capacities, os \in OpenOs : open(n, os)
    \/ drop
    \/ \E v \in Values : insert(v)
    \/ \E v \in Values : insert_or_assign(v)
    \/ \E k \in Keys : erase(k)
    \/ clear
    \/ \E k \in Keys, d \in Data : updating(k, d)
    \/ \E n \in Capacities : expand_stopped(n)

Spec == Init /\ [][Next]_vars

(***************************************************************************)
(* The #else branch of mapped_file::create: mmap(NULL, size, PROT_RDWR,    *)
(* MAP_PRIVATE, file, 0).  A store through a MAP_PRIVATE view goes to a    *)
(* copy of the page that belongs to the process and is never carried to    *)
(* the file.  While a store is live, header and records are what it reads  *)
(* through its view and disk is what the file holds; munmap discards the   *)
(* view.  open(2), fstat and mmap fail where the _WIN32 calls do: a        *)
(* missing file, and a length of 0 (EINVAL).  The operations of a live     *)
(* store are the ones above: they touch the view only.                     *)
(***************************************************************************)
posix_create(initial_capacity, os) ==
    /\ ~mapped_file_
    /\ freed' = latest_freed
    /\ UNCHANGED <<handle_vars, map_vars>>
    /\ path_exists' = (path_exists \/ (initial_capacity # 0 /\ os # "fopen"))
    /\ LET out == create_outcome(initial_capacity, os)
       IN  /\ Returned("create", initial_capacity, out)
           /\ disk' = IF out.error = "ok"
                      THEN [header |-> ZeroHeader,
                            records |-> resized(NoRecords, initial_capacity)]
                      ELSE [header |-> out.header, records |-> out.records]
    /\ written' = IF initial_capacity = 0 \/ os = "fopen" THEN written ELSE EmptyMap
    /\ cleared' = -1
    /\ modified' = -1

posix_open(initial_capacity, os) ==
    /\ ~mapped_file_
    /\ freed' = latest_freed
    /\ UNCHANGED <<handle_vars, map_vars>>
    /\ path_exists' = path_exists
    /\ LET out == open_outcome(initial_capacity, os)
       IN  /\ Returned("open", initial_capacity, out)
           /\ disk' = IF out.error = "ok"
                      THEN [header |-> header,
                            records |-> resized(records, out.reserved)]
                      ELSE [header |-> out.header, records |-> out.records]
    /\ written' = written
    /\ cleared' = -1
    /\ modified' = modified

(* ---- ~storage(): munmap, close ---- *)
posix_drop ==
    /\ mapped_file_
    /\ NoStore
    /\ header' = disk.header
    /\ records' = disk.records
    /\ result' = Ret("drop", 0, size, TRUE, "ok")
    /\ UNCHANGED <<path_exists, path_size, written, disk>>
    /\ freed' = latest_freed
    /\ UNCHANGED <<handle_vars, map_vars>>
    /\ cleared' = -1
    /\ modified' = modified

PosixNext ==
    \/ \E n \in Capacities, os \in CreateOs : posix_create(n, os)
    \/ \E n \in Capacities, os \in OpenOs : posix_open(n, os)
    \/ posix_drop
    \/ \E v \in Values : insert(v)
    \/ \E v \in Values : insert_or_assign(v)
    \/ \E k \in Keys : erase(k)
    \/ clear
    \/ \E k \in Keys, d \in Data : updating(k, d)

PosixSpec == Init /\ [][PosixNext]_vars

(***************************************************************************)
(* open of a file that something else left at the path.  The files: no    *)
(* byte, half a header, a header and half a record, or a header and up to  *)
(* MaxCapacity records; a header with the signature or one that differs in *)
(* a byte, the item size or another, any capacity field up to one above    *)
(* MaxCapacity; records with an empty, an occupied or another marker.      *)
(***************************************************************************)
OtherSignature == [ValidSignature EXCEPT ![4] = 31]
OtherMarkers == {<<1, 0, 0, 0>>, [marker_occupied EXCEPT ![1] = 27]}
FileLengths == {0, RecordSize \div 2, HeaderSize + RecordSize \div 2} \cup
               {HeaderSize + n * RecordSize : n \in 0..MaxCapacity}
FileHeaders == [signature : {ValidSignature, OtherSignature},
                item_size : {ItemSize, ItemSize \div 2},
                capacity : 0..(MaxCapacity + 1),
                size : {0}]
FileRecords == {ZeroRecord}
               \cup {[marker |-> marker_occupied, data |-> v] : v \in Values}
               \cup {[marker |-> m, data |-> ZeroValue] : m \in OtherMarkers}
whole_records(length) ==
    IF length < HeaderSize THEN 0 ELSE (length - HeaderSize) \div RecordSize

FileInit ==
    /\ path_exists \in BOOLEAN
    /\ path_size \in (IF path_exists THEN FileLengths ELSE {0})
    /\ header \in (IF path_size >= HeaderSize THEN FileHeaders ELSE {ZeroHeader})
    /\ records \in [0..(whole_records(path_size) - 1) -> FileRecords]
    /\ mapped_file_ = FALSE
    /\ occupied_indices_ = EmptyMap
    /\ free_indices_ = <<>>
    /\ free_capacity = 0
    /\ result = Ret("none", 0, 0, TRUE, "ok")
    /\ written = EmptyMap
    /\ cleared = -1
    /\ modified = -1
    /\ freed = [kept |-> FALSE, slot |-> -1]
    /\ disk = [header |-> ZeroHeader, records |-> NoRecords]
    /\ HandleInit
    /\ MapInit

FileNext ==
    \/ \E n \in Capacities, os \in OpenOs : open(n, os)
    \/ drop

FileSpec == FileInit /\ [][FileNext]_vars

(***************************************************************************)
(* One session of a store of up to MaxCapacity + 1 records, with the slot  *)
(* of the latest erase kept in freed: create, insert, erase and the end of *)
(* the session.                                                            *)
(***************************************************************************)
ReuseInit ==
    /\ path_exists = FALSE
    /\ path_size = 0
    /\ header = ZeroHeader
    /\ records = NoRecords
    /\ mapped_file_ = FALSE
    /\ occupied_indices_ = EmptyMap
    /\ free_indices_ = <<>>
    /\ free_capacity = 0
    /\ result = Ret("none", 0, 0, TRUE, "ok")
    /\ written = EmptyMap
    /\ cleared = -1
    /\ modified = -1
    /\ freed = [kept |-> TRUE, slot |-> -1]
    /\ disk = [header |-> ZeroHeader, records |-> NoRecords]
    /\ HandleInit
    /\ MapInit

ReuseNext ==
    \/ \E n \in 1..(MaxCapacity + 1) : create(n, "ok")
    \/ drop
    \/ \E v \in Values : insert(v)
    \/ \E k \in Keys : erase(k)

ReuseSpec == ReuseInit /\ [][ReuseNext]_vars

(***************************************************************************)
(* The store with a process that may stop inside insert and erase: the     *)
(* writes made to the shared view before the stop are in the file.         *)
(***************************************************************************)
CrashNext ==
    \/ \E n \in Capacities : create(n, "ok")
    \/ \E n \in Capacities : open(n, "ok")
    \/ drop
    \/ \E v \in Values : insert(v)
    \/ \E k \in Keys : erase(k)
    \/ \E v \in Values : insert_stopped(v)
    \/ \E k \in Keys : erase_stopped(k)

CrashSpec == Init /\ [][CrashNext]_vars

(***************************************************************************)
(* mapped_file as the owner of what mapped_file::create obtains (_WIN32    *)
(* branch): a file handle from CreateFileA, a mapping handle from          *)
(* CreateFileMapping and a view from MapViewOfFile.  The objects are the   *)
(* ones a caller holds and the locals of storage::open and storage::expand.*)
(***************************************************************************)
released(state) == IF state = "held" THEN "released" ELSE "twice"

(* UnmapViewOfFile(address_) for kind "view", CloseHandle for the others   *)
Release(hs, kind, n) == IF n = 0 THEN hs ELSE [hs EXCEPT ![n][kind] = released(@)]

(* ---- mapped_file::dispose ---- *)
dispose(hs, object) ==
    Release(Release(Release(hs, "view", object.address_),
                    "mapping", object.mapping_),
            "file", object.file_)

(* what the first call of mapped_file::create not yet made is numbered *)
fresh == {n \in Creates : /\ handles[n].outcome = "unused"
                          /\ \A m \in 1..(n - 1) : handles[m].outcome # "unused"}

CreateFailures == {"none", "CreateFileA", "CreateFileMapping", "MapViewOfFile"}

(* ---- mapped_file::create(path), _WIN32 branch: the n-th call, failure   *)
(* names the system call that fails.  The result wraps a mapped_file: the  *)
(* one built from what was obtained, or a default one beside the error.    *)
created(hs, n, failure) ==
    CASE failure = "CreateFileA" ->
            [handles |-> hs, file |-> DefaultObject]
      [] failure = "CreateFileMapping" ->
            [handles |-> [hs EXCEPT ![n] = [outcome |-> failure,
                                            file |-> "released",
                                            mapping |-> "none",
                                            view |-> "none"]],
             file |-> DefaultObject]
      [] failure = "MapViewOfFile" ->
            [handles |-> [hs EXCEPT ![n] = [outcome |-> failure,
                                            file |-> "released",
                                            mapping |-> "held",
                                            view |-> "none"]],
             file |-> DefaultObject]
      [] OTHER ->
            [handles |-> [hs EXCEPT ![n] = [outcome |-> "ok",
                                            file |-> "held",
                                            mapping |-> "held",
                                            view |-> "held"]],
             file |-> [alive |-> TRUE, address_ |-> n, mapping_ |-> n,
                       file_ |-> n]]

Did(op, o, held) == [op |-> op, object |-> o, held |-> held]

(* ---- mapped_file() noexcept = default ---- *)
construct(o) ==
    /\ ~objects[o].alive
    /\ objects' = [objects EXCEPT ![o] = DefaultObject]
    /\ last' = Did("construct", o, 0)
    /\ UNCHANGED <<handles, opening, storage_vars, map_vars>>

(* ---- auto file = mapped_file::create(path): the mapped_file the result  *)
(* wraps becomes object o ---- *)
mapped_file_created(o, failure) ==
    /\ ~objects[o].alive
    /\ \E n \in fresh :
         LET out == created(handles, n, failure)
         IN  /\ handles' = out.handles
             /\ objects' = [objects EXCEPT ![o] = out.file]
    /\ last' = Did("create", o, 0)
    /\ UNCHANGED <<opening, storage_vars, map_vars>>

(* a move constructor that copies the members and leaves other as it was *)
move_construct_copies(o, other) ==
    /\ ~objects[o].alive
    /\ objects[other].alive
    /\ other \notin opening.locals
    /\ objects' = [objects EXCEPT ![o] = objects[other]]
    /\ last' = Did("move_construct", o, 0)
    /\ UNCHANGED <<handles, opening, storage_vars, map_vars>>

(* ---- mapped_file(mapped_file&& other) ---- *)
move_construct(o, other) ==
    /\ ~objects[o].alive
    /\ objects[other].alive
    /\ other \notin opening.locals
    /\ objects' = [objects EXCEPT ![o] = objects[other], ![other] = DefaultObject]
    /\ last' = Did("move_construct", o, 0)
    /\ UNCHANGED <<handles, opening, storage_vars, map_vars>>

(* ---- mapped_file& operator = (mapped_file&& other): dispose(), then     *)
(* each member is taken and other's is reset; with other the object itself *)
(* every member ends reset ---- *)
move_assign(o, other) ==
    /\ objects[o].alive
    /\ objects[other].alive
    /\ o \notin opening.locals
    /\ other \notin opening.locals
    /\ handles' = dispose(handles, objects[o])
    /\ objects' = [objects EXCEPT ![o] = objects[other], ![other] = DefaultObject]
    /\ last' = Did("move_assign", o, objects[o].address_)
    /\ UNCHANGED <<opening, storage_vars, map_vars>>

(* ---- ~mapped_file() ---- *)
destroy(o) ==
    /\ objects[o].alive
    /\ o \notin opening.locals
    /\ handles' = dispose(handles, objects[o])
    /\ objects' = [objects EXCEPT ![o] = NoObject]
    /\ last' = Did("destroy", o, objects[o].address_)
    /\ UNCHANGED <<opening, storage_vars, map_vars>>

(* ---- storage::open: auto expected_file = mapped_file::create(path);     *)
(* on an error the local is destroyed as open returns ---- *)
open_maps(o, failure) ==
    /\ opening.step \in {"none", "done"}
    /\ ~objects[o].alive
    /\ \E n \in fresh :
         LET out == created(handles, n, failure)
         IN  IF failure = "none"
             THEN /\ handles' = out.handles
                  /\ objects' = [objects EXCEPT ![o] = out.file]
                  /\ opening' = [step |-> "mapped", locals |-> {o}, views |-> {n}]
             ELSE /\ handles' = dispose(out.handles, out.file)
                  /\ objects' = objects
                  /\ opening' = NotOpening
    /\ last' = Did("open", o, 0)
    /\ UNCHANGED <<storage_vars, map_vars>>

(* ---- storage::open returns without expansion: with the store, whose     *)
(* mapped_file_ is the local moved, or with an error of a check and the    *)
(* local destroyed ---- *)
open_returns(ok) ==
    /\ opening.step = "mapped"
    /\ \E o \in opening.locals :
         IF ok
         THEN UNCHANGED <<handles, objects>>
         ELSE /\ handles' = dispose(handles, objects[o])
              /\ objects' = [objects EXCEPT ![o] = NoObject]
    /\ opening' = [opening EXCEPT !.step = "done", !.locals = {}]
    /\ last' = Did("open", 0, 0)
    /\ UNCHANGED <<storage_vars, map_vars>>

(* an open that goes on to expand with its mapping still in place *)
open_keeps_mapping ==
    /\ opening.step = "mapped"
    /\ opening' = [opening EXCEPT !.step = "released"]
    /\ last' = Did("release", 0, 0)
    /\ UNCHANGED <<handles, objects, storage_vars, map_vars>>

(* ---- storage::open, initial_capacity > header->capacity:                *)
(* *expected_file = mapped_file{}; ---- *)
open_releases ==
    /\ opening.step = "mapped"
    /\ \E o \in opening.locals :
         /\ handles' = dispose(handles, objects[o])
         /\ objects' = [objects EXCEPT ![o] = DefaultObject]
         /\ last' = Did("release", o, objects[o].address_)
    /\ opening' = [opening EXCEPT !.step = "released"]
    /\ UNCHANGED <<storage_vars, map_vars>>

(* ---- storage::expand: fs::resize_file(path, ..., ec); an error returns  *)
(* and the local of open is destroyed ---- *)
expand_resizes(ok) ==
    /\ opening.step = "released"
    /\ \E o \in opening.locals :
         IF ok
         THEN /\ UNCHANGED <<handles, objects>>
              /\ opening' = [opening EXCEPT !.step = "resized"]
         ELSE /\ handles' = dispose(handles, objects[o])
              /\ objects' = [objects EXCEPT ![o] = NoObject]
              /\ opening' = [opening EXCEPT !.step = "done", !.locals = {}]
    /\ last' = Did("resize_file", 0, 0)
    /\ UNCHANGED <<storage_vars, map_vars>>

(* ---- storage::expand: auto expected_file = mapped_file::create(path);   *)
(* then the scan, which returns file_is_corrupted or the store that takes  *)
(* the new mapped_file; both locals are destroyed ---- *)
expand_maps(o2, failure) ==
    /\ opening.step = "resized"
    /\ ~objects[o2].alive
    /\ \E n \in fresh, o \in opening.locals :
         LET out == created(handles, n, IF failure = "file_is_corrupted"
                                        THEN "none" ELSE failure)
         IN  /\ handles' = IF failure = "none"
                           THEN dispose(out.handles, objects[o])
                           ELSE dispose(dispose(out.handles, out.file), objects[o])
             /\ objects' = [objects EXCEPT
                              ![o2] = IF failure = "none" THEN out.file ELSE NoObject,
                              ![o] = NoObject]
             /\ opening' = [step |-> "done", locals |-> {},
                            views |-> IF failure \in {"none", "file_is_corrupted"}
                                      THEN opening.views \cup {n}
                                      ELSE opening.views]
    /\ last' = Did("expand", o2, 0)
    /\ UNCHANGED <<storage_vars, map_vars>>

HandleNext ==
    \/ \E o \in Objects : construct(o)
    \/ \E o \in Objects, failure \in CreateFailures : mapped_file_created(o, failure)
    \/ \E o, other \in Objects : move_construct(o, other)
    \/ \E o, other \in Objects : move_assign(o, other)
    \/ \E o \in Objects : destroy(o)
    \/ \E o \in Objects, failure \in CreateFailures : open_maps(o, failure)
    \/ \E ok \in BOOLEAN : open_returns(ok)
    \/ open_releases
    \/ \E ok \in BOOLEAN : expand_resizes(ok)
    \/ \E o \in Objects, failure \in CreateFailures \cup {"file_is_corrupted"} :
         expand_maps(o, failure)

HandleSpec == Init /\ [][HandleNext]_vars

(***************************************************************************)
(* The linked-ring store: class map over detail::storage<T>                *)
(* (include/persia/queue.hpp).  A record is previous, next and the value,  *)
(* here a key and a data word; record 0 anchors the occupied ring, record  *)
(* 1 the free ring.  The file is a sequence of 32-bit words: four of       *)
(* header, then the records.  records_ is kept as the word at which the    *)
(* record array starts for the live store: storage::open and               *)
(* storage::expand take it at sizeof(header), storage::create takes it at  *)
(* sizeof(header_ptr), the size of a pointer (8 bytes under the 64-bit     *)
(* data model), so in a store that create returned, record 0's previous    *)
(* and next are the header's capacity and size.  A word below 0 stands for *)
(* that value modulo 2^32.  A call that reads or writes a record outside   *)
(* the mapping has no defined outcome: the model ends the store there and  *)
(* reports "undefined".                                                    *)
(***************************************************************************)
HeaderWords == 4
RecordWords == 4
PointerWords == 2
first_occupied_index == 0
first_free_index == 1
previous == 0
next == 1
data_key == 2
data_data == 3
CapacityWord == 3
SizeWord == 4

Inside(w, b, r) == r >= 0 /\ b + RecordWords * r + RecordWords <= Len(w)
Get(w, b, r, field) ==
    IF Inside(w, b, r) THEN w[b + RecordWords * r + field + 1] ELSE 0
Set(w, b, r, field, v) ==
    IF Inside(w, b, r) THEN [w EXCEPT ![b + RecordWords * r + field + 1] = v]
    ELSE w
SetData(w, b, r, value) ==
    Set(Set(w, b, r, data_key, value.key), b, r, data_data, value.data)
Zeroes(n) == [i \in 1..n |-> 0]
(* a file of n zero words; its first word is the four signature bytes *)
ZeroFile(n) == [i \in 1..n |-> IF i = 1 THEN <<0, 0, 0, 0>> ELSE 0]
storage_size(n) == HeaderWords + (n + 2) * RecordWords

(* ---- observers ---- *)
map_capacity == linked_path.words[CapacityWord]
header_size == linked_path.words[SizeWord]
map_size == Cardinality(DOMAIN indices_)

(* ---- begin(), operator ++, end(): the indices met from record 0's next  *)
(* until index 0; -1 closes a walk that leaves the mapping or that has not *)
(* come back after more steps than there are records ---- *)
RECURSIVE walk(_, _, _, _, _)
walk(w, b, index, stop, fuel) ==
    IF index = stop THEN <<>>
    ELSE IF fuel = 0 \/ ~Inside(w, b, index) THEN <<-1>>
    ELSE <<index>> \o walk(w, b, Get(w, b, index, next), stop, fuel - 1)
iteration(w, b) ==
    walk(w, b, Get(w, b, first_occupied_index, next), first_occupied_index, Len(w))
free_ring(w, b) ==
    walk(w, b, Get(w, b, first_free_index, next), first_free_index, Len(w))

(* ---- storage::create: the loop that links records 2 .. capacity + 1 ---- *)
RECURSIVE link_free(_, _, _, _, _)
link_free(w, b, index, last_index, stop) ==
    IF index = stop THEN w
    ELSE link_free(Set(Set(w, b, index, previous, last_index),
                       b, last_index, next, index),
                   b, index + 1, index, stop)

(* ---- storage::create: the words of the file it leaves ---- *)
created_words(initial_capacity) ==
    LET zero == ZeroFile(storage_size(initial_capacity))
        h == [zero EXCEPT ![1] = ValidSignature, ![2] = ItemSize,
                          ![CapacityWord] = initial_capacity, ![SizeWord] = 0]
        b == PointerWords
        last_free_index == initial_capacity + 1
        w1 == Set(h, b, first_occupied_index, previous, first_occupied_index)
        w2 == Set(w1, b, first_occupied_index, next, first_occupied_index)
        w3 == Set(w2, b, first_free_index, previous, last_free_index)
        w4 == Set(w3, b, last_free_index, next, first_free_index)
    IN  link_free(w4, b, first_free_index + 1, first_free_index, last_free_index + 1)

(* ---- storage_index storage::add(T const& data) ---- *)
add(w, b, data) ==
    LET index == Get(w, b, first_free_index, next)
    IN  IF index = first_free_index
        THEN [words |-> w, index |-> 0, defined |-> TRUE]
        ELSE
        LET next_free == Get(w, b, index, next)
            w1 == Set(w, b, next_free, previous, first_free_index)
            w2 == Set(w1, b, first_free_index, next, Get(w1, b, index, next))
            next_occupied == Get(w2, b, first_occupied_index, next)
            w3 == Set(w2, b, index, previous, first_occupied_index)
            w4 == Set(w3, b, index, next, Get(w3, b, first_occupied_index, next))
            w5 == Set(w4, b, next_occupied, previous, index)
            w6 == Set(w5, b, first_occupied_index, next, index)
            w7 == SetData(w6, b, index, data)
            w8 == [w7 EXCEPT ![SizeWord] = @ + 1]
        IN  [words |-> w8, index |-> index,
             defined |-> /\ Inside(w, b, index)
                         /\ Inside(w, b, next_free)
                         /\ Inside(w, b, next_occupied)]

(* ---- bool storage::remove(storage_index index) ---- *)
remove(w, b, index) ==
    IF index = 0 THEN [words |-> w, ok |-> FALSE, defined |-> TRUE]
    ELSE
    LET w1 == SetData(w, b, index, ZeroValue)
        before == Get(w1, b, index, previous)
        after == Get(w1, b, index, next)
        w2 == Set(w1, b, before, next, Get(w1, b, index, next))
        w3 == Set(w2, b, after, previous, Get(w2, b, index, previous))
        next_free == Get(w3, b, first_free_index, next)
        w4 == Set(w3, b, index, next, Get(w3, b, first_free_index, next))
        w5 == Set(w4, b, index, previous, first_free_index)
        w6 == Set(w5, b, next_free, previous, index)
        w7 == Set(w6, b, first_free_index, next, index)
        w8 == [w7 EXCEPT ![SizeWord] = @ - 1]
    IN  [words |-> w8, ok |-> TRUE,
         defined |-> /\ Inside(w, b, index)
                     /\ Inside(w, b, before)
                     /\ Inside(w, b, after)
                     /\ Inside(w, b, next_free)]

(* ---- storage::expand: the loop that adds records original_capacity + 2  *)
(* .. initial_capacity + 1 at the end of the free ring ---- *)
RECURSIVE splice(_, _, _, _)
splice(w, b, index, stop) ==
    IF index = stop THEN w
    ELSE LET tail == Get(w, b, first_free_index, previous)
             w1 == Set(w, b, index, next, first_free_index)
             w2 == Set(w1, b, index, previous, Get(w1, b, first_free_index, previous))
             w3 == Set(w2, b, tail, next, index)
             w4 == Set(w3, b, first_free_index, previous, index)
         IN  splice(w4, b, index + 1, stop)

(* ---- storage::expand: the words of the file it leaves ---- *)
expanded_words(w, initial_capacity) ==
    LET original_capacity == w[CapacityWord]
        grown == w \o Zeroes(storage_size(initial_capacity) - Len(w))
    IN  splice(grown, HeaderWords, original_capacity + 2, initial_capacity + 2)

MapFailed(error, file) ==
    [error |-> error, file |-> file, storage |-> NoStorage, indices |-> EmptyMap]

(* ---- map::create over storage::create ---- *)
map_create_outcome(initial_capacity, os) ==
    IF os = "fopen" THEN MapFailed("os_error", linked_path)
    ELSE IF os = "resize_file"
    THEN MapFailed("os_error", [exists |-> TRUE, words |-> <<>>])
    ELSE IF os = "mapped_file"
    THEN MapFailed("os_error", [exists |-> TRUE,
                                words |-> ZeroFile(storage_size(initial_capacity))])
    ELSE [error |-> "ok",
          file |-> [exists |-> TRUE, words |-> created_words(initial_capacity)],
          storage |-> [file_ |-> TRUE, records_ |-> PointerWords, added |-> <<>>],
          indices |-> EmptyMap]

(* ---- map::open: the loop over the occupied ring that sets              *)
(* indices[key of the value] = it.index() ---- *)
RECURSIVE indexed(_, _, _, _)
indexed(w, b, visited, indices) ==
    IF visited = <<>> THEN indices
    ELSE indexed(w, b, Tail(visited),
                 Put(indices, Get(w, b, Head(visited), data_key), Head(visited)))

map_opened(w, file) ==
    LET visited == iteration(w, HeaderWords)
    IN  IF visited # <<>> /\ visited[Len(visited)] = -1
        THEN MapFailed("undefined", file)
        ELSE [error |-> "ok", file |-> file,
              storage |-> [file_ |-> TRUE, records_ |-> HeaderWords,
                           added |-> visited],
              indices |-> indexed(w, HeaderWords, visited, EmptyMap)]

(* ---- map::open over storage::open and storage::expand ---- *)
map_open_outcome(initial_capacity, os) ==
    LET w == linked_path.words
    IN  IF ~linked_path.exists \/ w = <<>> \/ os = "mapped_file"
        THEN MapFailed("os_error", linked_path)
        ELSE IF Len(w) < HeaderWords + 2 * RecordWords
        THEN MapFailed("file_size_is_too_small", linked_path)
        ELSE IF w[1] # ValidSignature
        THEN MapFailed("invalid_file_signature", linked_path)
        ELSE IF Len(w) # storage_size(w[CapacityWord])
        THEN MapFailed("mismatch_file_size", linked_path)
        ELSE IF ItemSize # w[2]
        THEN MapFailed("mismatch_item_size", linked_path)
        ELSE IF initial_capacity > w[CapacityWord]
        THEN IF os = "resize_file" THEN MapFailed("os_error", linked_path)
             ELSE LET grown == [exists |-> TRUE,
                                words |-> w \o Zeroes(storage_size(initial_capacity)
                                                      - Len(w))]
                      spliced == expanded_words(w, initial_capacity)
                  IN  IF os = "remap" THEN MapFailed("os_error", grown)
                      ELSE map_opened(spliced, [exists |-> TRUE, words |-> spliced])
        ELSE map_opened(w, linked_path)

MapReturned(op, arg, out) ==
    /\ linked_path' = out.file
    /\ storage_' = out.storage
    /\ indices_' = out.indices
    /\ map_result' = MapRet(op, arg, out.error = "ok", out.error)
    /\ UNCHANGED <<storage_vars, handle_vars>>

map_create(initial_capacity, os) ==
    /\ ~storage_.file_
    /\ MapReturned("create", initial_capacity,
                   map_create_outcome(initial_capacity, os))

map_open(initial_capacity, os) ==
    /\ ~storage_.file_
    /\ MapReturned("open", initial_capacity,
                   map_open_outcome(initial_capacity, os))

(* ---- ~map() ---- *)
map_drop ==
    /\ storage_.file_
    /\ MapReturned("drop", 0, MapFailed("ok", linked_path))

(* a call that went outside the mapping *)
Undefined(op, arg) ==
    MapReturned(op, arg, MapFailed("undefined", linked_path))

Without(s, index) == SelectSeq(s, LAMBDA i : i # index)

(* what insert and insert_or_assign do with a key try_emplace(key, 0u)     *)
(* has just put in indices_ *)
map_add(op, value) ==
    LET out == add(linked_path.words, storage_.records_, value)
    IN  IF ~out.defined THEN Undefined(op, value)
        ELSE /\ linked_path' = [linked_path EXCEPT !.words = out.words]
             /\ IF out.index = 0
                THEN /\ indices_' = Put(indices_, key_of(value), 0)
                     /\ storage_' = storage_
                     /\ map_result' = MapRet(op, value, FALSE, "storage_is_full")
                ELSE /\ indices_' = Put(indices_, key_of(value), out.index)
                     /\ storage_' = [storage_ EXCEPT !.added = <<out.index>> \o @]
                     /\ map_result' = MapRet(op, value, TRUE, "ok")
             /\ UNCHANGED <<storage_vars, handle_vars>>

(* ---- map::insert ---- *)
map_insert(value) ==
    /\ storage_.file_
    /\ header_size < MaxCount
    /\ IF key_of(value) \in DOMAIN indices_
       THEN /\ map_result' = MapRet("insert", value, FALSE, "duplicated_key")
            /\ UNCHANGED <<linked_path, storage_, indices_, storage_vars, handle_vars>>
       ELSE map_add("insert", value)

(* ---- map::insert_or_assign ---- *)
map_insert_or_assign(value) ==
    /\ storage_.file_
    /\ header_size < MaxCount
    /\ IF key_of(value) \in DOMAIN indices_
       THEN LET index == indices_[key_of(value)]
            IN  IF ~Inside(linked_path.words, storage_.records_, index)
                THEN Undefined("insert_or_assign", value)
                ELSE /\ linked_path' =
                          [linked_path EXCEPT
                             !.words = SetData(@, storage_.records_, index, value)]
                     /\ map_result' = MapRet("insert_or_assign", value, TRUE, "ok")
                     /\ UNCHANGED <<storage_, indices_, storage_vars, handle_vars>>
       ELSE map_add("insert_or_assign", value)

(* ---- map::erase ---- *)
map_erase(key) ==
    /\ storage_.file_
    /\ header_size > -MaxCount
    /\ IF key \notin DOMAIN indices_
       THEN /\ map_result' = MapRet("erase", key, FALSE, "ok")
            /\ UNCHANGED <<linked_path, storage_, indices_, storage_vars, handle_vars>>
       ELSE LET index == indices_[key]
                out == remove(linked_path.words, storage_.records_, index)
            IN  IF ~out.defined THEN Undefined("erase", key)
                ELSE /\ linked_path' = [linked_path EXCEPT !.words = out.words]
                     /\ indices_' = Remove(indices_, key)
                     /\ storage_' = [storage_ EXCEPT !.added = Without(@, index)]
                     /\ map_result' = MapRet("erase", key, TRUE, "ok")
                     /\ UNCHANGED <<storage_vars, handle_vars>>

MapCapacities == 0..MaxCapacity

MapNext ==
    \/ \E n \in MapCapacities, os \in CreateOs : map_create(n, os)
    \/ \E n \in MapCapacities, os \in OpenOs : map_open(n, os)
    \/ map_drop
    \/ \E v \in Values : map_insert(v)
    \/ \E v \in Values : map_insert_or_assign(v)
    \/ \E k \in Keys : map_erase(k)

MapSpec == Init /\ [][MapNext]_vars

(***************************************************************************)
(* Properties                                                              *)
(***************************************************************************)

(* Every operation records its name and argument in result, so a step of  *)
(* op(arg) is a step with result'.op = op and result'.arg = arg.           *)
Called(op) == result'.op = op
arg == result'.arg

Lookup(m, k) == IF k \in DOMAIN m THEN <<m[k]>> ELSE <<>>

(* C1: a store that was dropped and is opened again with a requested        *)
(* capacity not above its own holds exactly the keys that were present at   *)
(* the drop, each with its last written value, by find and by iteration.    *)
RoundTrip ==
    [][(/\ Called("open") /\ open(arg, "ok")
        /\ result.op = "drop" /\ arg <= header.capacity)
           => /\ result'.ok
              /\ Contents' = written
              /\ \A k \in Keys : find(k)' = Lookup(written, k)
              /\ \A it \in Iterations' :
                    /\ Len(it) = Cardinality(DOMAIN written)
                    /\ \A k \in DOMAIN written :
                          \E n \in DOMAIN it : it[n] = written[k]]_vars

(* A store reopened without expansion that holds an entry and still has a   *)
(* record that was erased before the drop.                                  *)
RoundTripWitness ==
    /\ result.op = "open" /\ result.ok
    /\ result.arg < header.capacity
    /\ written # EmptyMap
    /\ \E i \in DOMAIN records :
          records[i].marker = marker_empty /\ records[i].data # ZeroValue

(* The slots of the record array that are not occupied. *)
FreeSlots == {i \in DOMAIN records : records[i].marker = marker_empty}

(* C2: insert of a key that is not present, while some slot is free,        *)
(* succeeds, adds one to size(), makes find return the value and leaves     *)
(* the value under every other key alone.                                   *)
InsertNewKey ==
    [][(/\ Called("insert") /\ insert(arg)
        /\ key_of(arg) \notin DOMAIN occupied_indices_ /\ FreeSlots # {})
           => /\ result'.ok
              /\ size' = size + 1
              /\ \A k \in Keys :
                    find(k)' = IF k = key_of(arg) THEN <<arg>> ELSE find(k)]_vars

(* C3: insert of a key that is not present into a store without a free      *)
(* slot fails and leaves size(), capacity(), the keys and every stored      *)
(* value as they were.                                                      *)
InsertFull ==
    [][(/\ Called("insert") /\ insert(arg)
        /\ key_of(arg) \notin DOMAIN occupied_indices_
        /\ (fully_occupied \/ size = capacity))
           => /\ ~result'.ok
              /\ size' = size
              /\ capacity' = capacity
              /\ DOMAIN occupied_indices_' = DOMAIN occupied_indices_
              /\ Contents' = Contents
              /\ \A k \in Keys : find(k)' = find(k)
              /\ records' = records]_vars

(* A refused insert of a new key into a store whose every slot is taken. *)
InsertFullWitness ==
    /\ result.op = "insert" /\ ~result.ok
    /\ key_of(result.arg) \notin DOMAIN occupied_indices_
    /\ size = capacity /\ size = result.prior
    /\ FreeSlots = {}

(* C4: insert of a key that is already indexed fails; size() stays and      *)
(* find still returns the value stored before, not the argument.            *)
InsertDuplicate ==
    [][(/\ Called("insert") /\ insert(arg)
        /\ key_of(arg) \in DOMAIN occupied_indices_)
           => /\ ~result'.ok
              /\ size' = size
              /\ \A k \in Keys : k = key_of(arg) => find(k)' = find(k)
              /\ Contents' = Contents]_vars

(* A refused insert of a present key with a value other than the stored one. *)
InsertDuplicateWitness ==
    /\ result.op = "insert" /\ ~result.ok
    /\ key_of(result.arg) \in DOMAIN occupied_indices_
    /\ find(key_of(result.arg)) # <<result.arg>>
    /\ size < capacity

(* What insert and insert_or_assign do with a key that is not present. *)
NewKeyEffect(v) ==
    IF free_indices_ = <<>>
    THEN /\ ~result'.ok
         /\ UNCHANGED <<file_vars, store_vars>>
    ELSE /\ result'.ok
         /\ occupied_indices_' = Put(occupied_indices_, key_of(v), Back(free_indices_))
         /\ free_indices_' = PopBack(free_indices_)
         /\ records' = [records EXCEPT ![Back(free_indices_)] =
                           [marker |-> marker_occupied, data |-> v]]
         /\ UNCHANGED <<path_exists, path_size, header, mapped_file_, free_capacity>>

(* C5: insert_or_assign of a present key overwrites the value in its slot,  *)
(* touches neither the free list nor size(); of a key that is not present   *)
(* it does what insert does, also when it fails for want of a free slot.    *)
InsertOrAssign ==
    [][/\ (/\ Called("insert_or_assign") /\ insert_or_assign(arg)
           /\ key_of(arg) \in DOMAIN occupied_indices_)
             => /\ result'.ok
                /\ records' = [records EXCEPT
                                  ![occupied_indices_[key_of(arg)]].data = arg]
                /\ size' = size
                /\ UNCHANGED <<path_exists, path_size, header, store_vars>>
       /\ (/\ Called("insert_or_assign") /\ insert_or_assign(arg)
           /\ key_of(arg) \notin DOMAIN occupied_indices_)
             => NewKeyEffect(arg)
       /\ (/\ Called("insert") /\ insert(arg)
           /\ key_of(arg) \notin DOMAIN occupied_indices_)
             => NewKeyEffect(arg)]_vars

(* An insert_or_assign that changed the value of a present key while a      *)
(* slot was free.                                                           *)
InsertOrAssignWitness ==
    /\ result.op = "insert_or_assign" /\ result.ok
    /\ result.prior = size
    /\ find(key_of(result.arg)) = <<result.arg>>
    /\ free_indices_ # <<>>

(* C6: erase of a present key returns true, takes one from size(), makes    *)
(* find return none, tags the record empty and puts its slot on the free    *)
(* list; erase of a key that is not present returns false and changes       *)
(* nothing.                                                                 *)
Erase ==
    [][/\ (Called("erase") /\ erase(arg) /\ arg \in DOMAIN occupied_indices_)
             => /\ result'.ok
                /\ size' = size - 1
                /\ \A k \in Keys : k = arg => find(k)' = <<>>
                /\ records'[occupied_indices_[arg]].marker = marker_empty
                /\ free_indices_' = Append(free_indices_, occupied_indices_[arg])
                /\ \A j \in Keys \ {arg} : find(j)' = find(j)
       /\ (Called("erase") /\ erase(arg) /\ arg \notin DOMAIN occupied_indices_)
             => /\ ~result'.ok
                /\ UNCHANGED <<file_vars, store_vars>>]_vars

(* An erase that removed one of two entries. *)
EraseWitness ==
    /\ result.op = "erase" /\ result.ok
    /\ result.prior = 2 /\ size = 1
    /\ free_indices_ # <<>>
    /\ records[Back(free_indices_)].marker = marker_empty
    /\ key_of(records[Back(free_indices_)].data) = result.arg

(* C7: clear makes size() 0 and empty() true, and the capacity() inserts   *)
(* of pairwise distinct keys that follow it all succeed.                    *)
ClearReusable ==
    [][/\ (Called("clear") /\ clear) => (size' = 0 /\ empty')
       /\ (/\ Called("insert") /\ insert(arg)
           /\ cleared >= 0 /\ cleared < capacity
           /\ key_of(arg) \notin DOMAIN occupied_indices_)
             => result'.ok]_vars

(* C8: find returns an entry exactly for the keys written and not since     *)
(* erased or cleared, and the entry is the value last written.              *)
FindWritten ==
    mapped_file_ => \A k \in Keys : find(k) = Lookup(written, k)

(* A store that holds a key whose value was overwritten, next to the        *)
(* record of a key that was erased.                                         *)
FindWrittenWitness ==
    /\ mapped_file_
    /\ result.op = "insert_or_assign" /\ result.ok /\ result.prior = size
    /\ \E i \in FreeSlots :
          /\ key_of(records[i].data) \notin DOMAIN occupied_indices_
          /\ records[i].data # ZeroValue

RECURSIVE Sum(_)
Sum(s) == IF s = <<>> THEN 0 ELSE Head(s).data + Sum(Tail(s))

(* The slots that begin() .. end() dereferences, in each order the hash     *)
(* map may have.                                                            *)
Visits == {[n \in DOMAIN o |-> occupied_indices_[o[n]]] :
              o \in Orders(DOMAIN occupied_indices_)}

(* C9: an iteration ends after size() entries, visits no record twice and   *)
(* only occupied ones, and yields the written entries each once; so the     *)
(* sum of a field over the iteration is its sum over the written entries.   *)
Iteration ==
    mapped_file_ =>
        /\ \A vis \in Visits :
              /\ Len(vis) = size
              /\ \A a, b \in DOMAIN vis : a # b => vis[a] # vis[b]
              /\ \A n \in DOMAIN vis :
                    /\ records[vis[n]].marker = marker_occupied
                    /\ key_of(records[vis[n]].data) \in DOMAIN written
                    /\ records[vis[n]].data = written[key_of(records[vis[n]].data)]
        /\ \A it \in Iterations :
              /\ Len(it) = Cardinality(DOMAIN written)
              /\ \A k \in DOMAIN written :
                    Cardinality({n \in DOMAIN it : it[n] = written[k]}) = 1
              /\ \A o \in Orders(DOMAIN written) :
                    Sum(it) = Sum([n \in DOMAIN o |-> written[o[n]]])

(* A reopened store with the entries {0, 1} and {1, 1}: two entries are    *)
(* visited and the sum of their data is 2.                                  *)
IterationWitness ==
    /\ mapped_file_
    /\ result.op = "open" /\ result.ok
    /\ DOMAIN written = {0, 1}
    /\ \A it \in Iterations : Len(it) = 2 /\ Sum(it) = 2

(* The store that open returns for the file when it asks for no more than   *)
(* the stored capacity.                                                     *)
Reopened == open_outcome(0, "ok")

(* C10: open with a requested capacity m above the stored capacity c of a   *)
(* valid file returns a store of capacity m with the contents as before,    *)
(* the free slots as before plus the m - c new ones, and leaves m in the    *)
(* header so that a later open finds capacity m.                            *)
Expansion ==
    [][(/\ Called("open") /\ open(arg, "ok")
        /\ Reopened.error = "ok" /\ header.capacity < arg)
           => /\ result'.ok
              /\ capacity' = arg
              /\ Contents' = written
              /\ occupied_indices_' = Reopened.occupied
              /\ size' = Cardinality(DOMAIN written)
              /\ \A k \in DOMAIN written : find(k)' = <<written[k]>>
              /\ Len(free_indices_') = Len(Reopened.free) + (arg - header.capacity)
              /\ Range(free_indices_') =
                    Range(Reopened.free) \cup (header.capacity .. (arg - 1))
              /\ header'.capacity = arg
              /\ path_size' = HeaderSize + arg * RecordSize
              /\ Reopened'.error = "ok"
              /\ Reopened'.reserved = arg
              /\ Reopened'.occupied = occupied_indices_'
              /\ Reopened'.free = free_indices_']_vars

(* A full store of capacity 1 opened with capacity 2. *)
ExpansionWitness ==
    /\ result.op = "open" /\ result.ok
    /\ result.prior = 1 /\ result.arg = 2
    /\ capacity = 2 /\ size = 1
    /\ free_indices_ = <<1>>
    /\ header.capacity = 2

(* C11: open of a store that was dropped, with a requested capacity m not   *)
(* above the stored capacity c, returns a store of capacity c that holds    *)
(* every entry, and changes neither the length of the file, nor its header, *)
(* nor its records.                                                         *)
OpenNoShrink ==
    [][(/\ Called("open") /\ open(arg, "ok")
        /\ result.op = "drop" /\ arg <= header.capacity)
           => /\ result'.ok
              /\ capacity' = header.capacity
              /\ size' = Cardinality(DOMAIN written)
              /\ \A k \in DOMAIN written : find(k)' = <<written[k]>>
              /\ Len(free_indices_') + size' = header.capacity
              /\ path_size' = path_size
              /\ header' = header
              /\ records' = records]_vars

(* A store of capacity 2 with two entries that was opened with capacity 1. *)
OpenNoShrinkWitness ==
    /\ result.op = "open" /\ result.ok
    /\ result.arg = 1 /\ result.prior = 2
    /\ capacity = 2 /\ size = 2
    /\ path_size = HeaderSize + 2 * RecordSize

(* C12: create with a capacity n >= 1 returns a store with capacity() = n,  *)
(* size() = 0, empty(), not fully_occupied() and every slot free, and an    *)
(* open with capacity n of the file it leaves returns a store with the      *)
(* same observations.                                                       *)
CreateThenOpen ==
    [][(Called("create") /\ create(arg, "ok") /\ arg >= 1)
           => /\ result'.ok
              /\ capacity' = arg /\ size' = 0 /\ empty' /\ ~fully_occupied'
              /\ Range(free_indices_') = 0 .. (arg - 1)
              /\ Len(free_indices_') = arg
              /\ FreeSlots' = 0 .. (arg - 1)
              /\ \A n \in Capacities : n = arg =>
                    LET opened == open_outcome(n, "ok")'
                    IN  /\ opened.error = "ok"
                        /\ opened.reserved = n
                        /\ opened.occupied = EmptyMap
                        /\ opened.free # <<>>
                        /\ Range(opened.free) = 0 .. (n - 1)
                        /\ Len(opened.free) = n]_vars

(* The store that open(path, 2) returns for a file that create(path, 2)     *)
(* made and no insert touched.                                              *)
CreateThenOpenWitness ==
    /\ result.op = "open" /\ result.ok
    /\ result.arg = 2 /\ result.prior = 2
    /\ capacity = 2 /\ size = 0 /\ empty /\ ~fully_occupied
    /\ \A i \in DOMAIN records : records[i] = ZeroRecord

(* C13: a value modified through the pointer that find(k) returns is the    *)
(* value find(k) returns from the store that open yields after the drop,    *)
(* when no call of the system fails in that open.                           *)
FindModified ==
    [][(/\ Called("open") /\ result.op = "drop"
        /\ modified \in Keys /\ result'.error # "os_error")
           => /\ result'.ok
              /\ find(modified)' = <<written[modified]>>]_vars

(* The four conditions of open on the file, each by itself. *)
LongEnough == path_size >= HeaderSize + RecordSize
SignatureOk == header.signature = ValidSignature
LengthOk == path_size = HeaderSize + header.capacity * RecordSize
ItemSizeOk == header.item_size = ItemSize

(* C14: when no call of the system fails, open returns a store only for a  *)
(* file that is at least a header and a record long, carries the signature, *)
(* is as long as its capacity field says and declares the item size of the  *)
(* value type; a file that breaks one of the four and keeps the others is   *)
(* refused with the error of that one.                                      *)
OpenValidates ==
    [][(Called("open") /\ open(arg, "ok"))
           => /\ result'.ok => (LongEnough /\ SignatureOk /\ LengthOk /\ ItemSizeOk)
              /\ (~LongEnough /\ SignatureOk /\ LengthOk /\ ItemSizeOk)
                    => result'.error = "file_size_is_too_small"
              /\ (LongEnough /\ ~SignatureOk /\ LengthOk /\ ItemSizeOk)
                    => result'.error = "invalid_file_signature"
              /\ (LongEnough /\ SignatureOk /\ ~LengthOk /\ ItemSizeOk)
                    => result'.error = "mismatch_file_size"
              /\ (LongEnough /\ SignatureOk /\ LengthOk /\ ~ItemSizeOk)
                    => result'.error = "mismatch_item_size"]_vars

(* An open that refused a file for its declared item size alone. *)
OpenValidatesWitness ==
    /\ result.op = "open" /\ result.error = "mismatch_item_size"
    /\ LongEnough /\ SignatureOk /\ LengthOk /\ ~ItemSizeOk

(* C15: open on a path where no file is returns an error of the system,    *)
(* whatever else fails, returns no store and makes no file.                 *)
OpenMissing ==
    [][(Called("open") /\ ~path_exists)
           => /\ ~result'.ok
              /\ result'.error = "os_error"
              /\ ~mapped_file_'
              /\ ~path_exists'
              /\ UNCHANGED <<path_size, header, records>>]_vars

(* An open that failed where there is no file. *)
OpenMissingWitness ==
    /\ result.op = "open" /\ ~result.ok /\ result.error = "os_error"
    /\ ~path_exists /\ ~mapped_file_

(* C16: open of an existing file of length 0 fails with                    *)
(* file_size_is_too_small.                                                  *)
ZeroLengthTooSmall ==
    [][(Called("open") /\ path_exists /\ path_size = 0)
           => (~result'.ok /\ result'.error = "file_size_is_too_small")]_vars

(* The file passes the four checks and a record within its capacity has a   *)
(* marker that is neither empty nor occupied.                               *)
OtherMarker ==
    /\ LongEnough /\ SignatureOk /\ LengthOk /\ ItemSizeOk
    /\ \E i \in DOMAIN records :
          records[i].marker \notin {marker_empty, marker_occupied}

(* C17: when no call of the system fails, open of such a file fails with    *)
(* file_is_corrupted and returns no store, for a requested capacity below,  *)
(* at or above the stored one.                                              *)
OpenCorrupted ==
    [][(Called("open") /\ open(arg, "ok") /\ OtherMarker)
           => /\ ~result'.ok
              /\ result'.error = "file_is_corrupted"
              /\ ~mapped_file_'
              /\ occupied_indices_' = EmptyMap /\ free_indices_' = <<>>]_vars

(* An open that asked for two records of a file of one, whose marker is     *)
(* neither empty nor occupied, and failed with file_is_corrupted.           *)
OpenCorruptedWitness ==
    /\ result.op = "open" /\ result.error = "file_is_corrupted"
    /\ result.arg = 2 /\ result.prior = 1
    /\ records[0].marker \notin {marker_empty, marker_occupied}

FormatErrors == {"file_size_is_too_small", "invalid_file_signature",
                 "mismatch_file_size", "mismatch_item_size", "file_is_corrupted"}

(* C18: an open that returns one of the five format errors leaves the       *)
(* length of the file, its header and its records as they were.             *)
OpenErrorFrame ==
    [][(Called("open") /\ result'.error \in FormatErrors)
           => UNCHANGED file_vars]_vars

StoreOps == {"insert", "insert_or_assign", "erase", "clear", "updating"}

(* C19: insert, insert_or_assign, erase, clear and a store through find's   *)
(* pointer leave capacity(), the capacity field of the header, the length   *)
(* of the file and the number of its records alone; the capacity field and  *)
(* the length change only in create and in an open that asks for more than  *)
(* the stored capacity.                                                     *)
NoImplicitGrowth ==
    [][/\ result'.op \in StoreOps
            => /\ capacity' = capacity
               /\ header'.capacity = header.capacity
               /\ path_size' = path_size
               /\ DOMAIN records' = DOMAIN records
       /\ (header'.capacity # header.capacity \/ path_size' # path_size)
            => \/ Called("create")
               \/ /\ result'.op \in {"open", "expand_stopped"}
                  /\ result'.arg > header.capacity]_vars

(* A full store of capacity 1 that refused an insert and kept its capacity, *)
(* its header and the length of its file.                                   *)
NoImplicitGrowthWitness ==
    /\ result.op = "insert" /\ ~result.ok
    /\ fully_occupied /\ size = 1
    /\ capacity = 1 /\ header.capacity = 1
    /\ path_size = HeaderSize + RecordSize

(* C20: when expand stops between the resize of the file and the store to   *)
(* the capacity field, the records and the header are as before; the opens  *)
(* that follow fail with mismatch_file_size (or with an error of the        *)
(* system), return no store and leave the file as it is; and a step that    *)
(* changes the capacity field leaves a file of the length the new value     *)
(* stands for.                                                              *)
ExpandStopped ==
    [][/\ Called("expand_stopped")
            => /\ header' = header
               /\ \A i \in DOMAIN records : records'[i] = records[i]
               /\ path_size' > path_size
               /\ format_error' = "mismatch_file_size"
       /\ (Called("open") /\ result.op = "expand_stopped")
            => /\ ~result'.ok /\ ~mapped_file_'
               /\ result'.error \in {"mismatch_file_size", "os_error"}
               /\ open(arg, "ok") => result'.error = "mismatch_file_size"
               /\ UNCHANGED file_vars
       /\ (Called("open") /\ header'.capacity # header.capacity)
            => /\ path_size' = HeaderSize + header'.capacity * RecordSize
               /\ path_size' > path_size]_vars

(* An open refused with mismatch_file_size on a file that was grown to two  *)
(* records while its header says one, the occupied record still in place.   *)
ExpandStoppedWitness ==
    /\ result.op = "open" /\ result.error = "mismatch_file_size"
    /\ SignatureOk /\ header.capacity = 1
    /\ path_size = HeaderSize + 2 * RecordSize
    /\ records[0].marker = marker_occupied
    /\ records[1] = ZeroRecord

(***************************************************************************)
(* Properties of mapped_file and of the mapping an open holds              *)
(***************************************************************************)
Owners(kind, n) ==
    {o \in Objects : /\ objects[o].alive
                     /\ n = (CASE kind = "view" -> objects[o].address_
                               [] kind = "mapping" -> objects[o].mapping_
                               [] OTHER -> objects[o].file_)}
HeldViews == {n \in opening.views : handles[n].view = "held"}

(* C21: when open expands, it releases the mapping it made, then resizes   *)
(* the file, then maps the file again: fs::resize_file is called only      *)
(* after the first mapping was released, when no view this open made is    *)
(* held, the second mapping is made only after the resize, and at no time  *)
(* are two views made by one open held together.                           *)
ExpansionOrder ==
    /\ [](Cardinality(HeldViews) <= 1)
    /\ [][/\ last'.op = "resize_file" => opening.step = "released" /\ HeldViews = {}
          /\ last'.op = "expand" => /\ opening.step = "resized"
                                    /\ HeldViews = {}]_vars

(* open expanded: its first view is released, its second one is held *)
ExpansionOrderWitness ==
    /\ last.op = "expand"
    /\ Cardinality(opening.views) = 2
    /\ \E n \in opening.views : handles[n].view = "released"
    /\ \E n \in opening.views : handles[n].view = "held"

(* C22: whatever the moves and destructions, what a successful             *)
(* mapped_file::create obtained (view, mapping handle, file handle) is     *)
(* never released twice, is held exactly while one live object has it, and *)
(* so is released once no object is alive.                                 *)
MoveSafety ==
    \A n \in Creates : \A kind \in {"file", "mapping", "view"} :
        handles[n].outcome = "ok" =>
            /\ handles[n][kind] \in {"held", "released"}
            /\ Cardinality(Owners(kind, n)) = (IF handles[n][kind] = "held" THEN 1 ELSE 0)

(* a move assignment onto an object that had a mapping: that mapping is    *)
(* released and the object has the other one                               *)
MoveSafetyWitness ==
    /\ last.op = "move_assign"
    /\ last.held # 0
    /\ handles[last.held].outcome = "ok"
    /\ handles[last.held].view = "released"
    /\ handles[last.held].mapping = "released"
    /\ handles[last.held].file = "released"
    /\ objects[last.object].address_ \notin {0, last.held}

(* C23: when mapped_file::create returns an error, nothing it obtained in  *)
(* that call is still held.                                                *)
CreateFailureReleases ==
    \A n \in Creates :
        handles[n].outcome \notin {"unused", "ok"} =>
            /\ handles[n].file # "held"
            /\ handles[n].mapping # "held"
            /\ handles[n].view # "held"

(* C24 as stated: the file at the path, once there, stays and never gets   *)
(* shorter, whatever is called, create included.                           *)
FileNeverShrinks ==
    [][path_exists => path_exists' /\ path_size' >= path_size]_vars

(* C24: the file at the path, once there, stays; open, insert,             *)
(* insert_or_assign, erase, clear and the destructor never make it         *)
(* shorter; create starts from an empty file and, when it succeeds,        *)
(* leaves one of sizeof(header) + initial_capacity * sizeof(record) bytes, *)
(* which can be shorter than the file it replaced.                         *)
FileKept ==
    [][path_exists =>
          /\ path_exists'
          /\ Called("create") \/ path_size' >= path_size
          /\ Called("create") /\ result'.ok
                => path_size' = HeaderSize + result'.arg * RecordSize]_vars

(* create succeeded on a path whose file had more records than it asked *)
FileKeptWitness ==
    /\ result.op = "create"
    /\ result.ok
    /\ result.prior > result.arg
    /\ path_exists
    /\ path_size = HeaderSize + result.arg * RecordSize

(* C25: while a store is live, size() is the number of records whose       *)
(* marker is occupied, and every entry key -> index of the index names a   *)
(* record whose marker is occupied and whose value has that key.           *)
Tagged == {i \in DOMAIN records : records[i].marker = marker_occupied}
MapCalled(op) == map_result'.op = op
NoFreeSlot ==
    Get(linked_path.words, storage_.records_, first_free_index, next)
        = first_free_index

(* C26: slot 0 is a sentinel: no entry of the key index names it and no    *)
(* value is stored in it.                                                  *)
SlotZeroReserved ==
    storage_.file_ =>
        /\ \A k \in DOMAIN indices_ : indices_[k] # 0
        /\ Get(linked_path.words, storage_.records_, 0, data_key) = 0
        /\ Get(linked_path.words, storage_.records_, 0, data_data) = 0

(* C27: insert or insert_or_assign of a key that is not present, into a    *)
(* store whose free ring is empty, fails with storage_is_full and leaves   *)
(* size() as it was and the key absent, so that find(key) is none and      *)
(* erase(key) is false.                                                    *)
InsertIntoFull ==
    [][\A v \in Values :
         /\ MapCalled("insert") \/ MapCalled("insert_or_assign")
         /\ map_result'.arg = v
         /\ key_of(v) \notin DOMAIN indices_
         /\ NoFreeSlot
         => /\ map_result'.error = "storage_is_full"
            /\ map_size' = map_size
            /\ key_of(v) \notin DOMAIN indices_']_vars

(* C28: the walk from begin() by next comes to end() and meets exactly the *)
(* slots add returned and remove has not taken back, latest first.         *)
Traversal ==
    storage_.file_ => iteration(linked_path.words, storage_.records_) = storage_.added

(* C29: open(path, m) with m above the capacity in the header returns a    *)
(* store whose capacity(), the header's capacity field, is m.              *)
ExpandedCapacity ==
    [][/\ MapCalled("open")
       /\ map_result'.ok
       /\ map_result'.arg > map_capacity
       => map_capacity' = map_result'.arg]_vars

(* C30: an expansion from c to m leaves the links of the occupied ring as  *)
(* they were, and the free ring is afterwards its former nodes in their    *)
(* order followed by c + 2 .. m + 1, each node the previous of its next.   *)
ExpansionSplice ==
    [][/\ MapCalled("open")
       /\ map_result'.ok
       /\ map_result'.arg > map_capacity
       => LET w == linked_path.words
              expanded == linked_path'.words
              c == map_capacity
              m == map_result'.arg
              b == HeaderWords
          IN  /\ \A i \in {first_occupied_index} \cup Range(iteration(w, b)) :
                    /\ Get(expanded, b, i, previous) = Get(w, b, i, previous)
                    /\ Get(expanded, b, i, next) = Get(w, b, i, next)
              /\ free_ring(expanded, b)
                    = free_ring(w, b) \o [i \in 1..(m - c) |-> c + 1 + i]
              /\ \A i \in {first_free_index} \cup Range(free_ring(expanded, b)) :
                    Get(expanded, b, Get(expanded, b, i, next), previous) = i]_vars

(* C32: an open of an existing file in which no call of the system is made  *)
(* to fail reports the first of the four checks the file breaks, in the     *)
(* order size, signature, size against capacity, item size, whichever       *)
(* others it breaks too and whatever capacity is asked, and a file that     *)
(* breaks any of them is not resized.                                       *)
OpenCheckOrder ==
    [][(/\ Called("open")
        /\ path_exists
        /\ \E os \in {"ok", "resize_file", "remap"} : open(arg, os)
        /\ ~(LongEnough /\ SignatureOk /\ LengthOk /\ ItemSizeOk))
           => /\ ~result'.ok
              /\ UNCHANGED file_vars
              /\ result'.error =
                    IF ~LongEnough THEN "file_size_is_too_small"
                    ELSE IF ~SignatureOk THEN "invalid_file_signature"
                    ELSE IF ~LengthOk THEN "mismatch_file_size"
                    ELSE "mismatch_item_size"]_vars

(* C33: within one session, a successful insert of a key that is not       *)
(* present takes the slot the latest erase freed, when no key has taken     *)
(* that slot since.                                                         *)
LastFreedFirst ==
    [][(/\ Called("insert") /\ result'.ok
        /\ key_of(arg) \notin DOMAIN occupied_indices_
        /\ freed.slot >= 0)
           => occupied_indices_'[key_of(arg)] = freed.slot]_vars

(* C35: in a store that create or open returned, no slot is twice in the    *)
(* free list, no two keys of the index have the same slot, no slot is in    *)
(* the free list and in the index, and every slot of either is below        *)
(* capacity().                                                              *)
SlotsDisjoint ==
    mapped_file_ =>
        /\ \A i, j \in DOMAIN free_indices_ :
              i # j => free_indices_[i] # free_indices_[j]
        /\ \A k, l \in DOMAIN occupied_indices_ :
              k # l => occupied_indices_[k] # occupied_indices_[l]
        /\ Range(free_indices_) \cap Range(occupied_indices_) = {}
        /\ \A i \in Range(free_indices_) \cup Range(occupied_indices_) :
              i \in 0..(capacity - 1)

(* After an erase, a store with a slot in the free list and a key in the    *)
(* index.                                                                   *)
SlotsDisjointWitness ==
    /\ mapped_file_
    /\ result.op = "erase" /\ result.ok
    /\ free_indices_ # <<>>
    /\ occupied_indices_ # EmptyMap

(* C36: in a store that create or open returned, after any calls of insert, *)
(* insert_or_assign, erase and clear, fully_occupied() is true exactly when  *)
(* size() is capacity().                                                    *)
FullMeansAllOccupied ==
    mapped_file_ => (fully_occupied <=> (size = capacity))

(* C37: an insert of a value whose key is present fails and leaves the free *)
(* list as it was, and with it the number of new keys that can still be     *)
(* inserted, capacity() - size().                                           *)
DuplicateKeepsFree ==
    [][(/\ Called("insert") /\ insert(arg)
        /\ key_of(arg) \in DOMAIN occupied_indices_)
           => /\ ~result'.ok
              /\ free_indices_' = free_indices_
              /\ capacity' - size' = capacity - size]_vars

(* C40: after a stop inside insert(v) or erase(k), the next open of the     *)
(* file returns a store, its keys are among the keys present before the     *)
(* stopped call and, after insert, key_of(v), and its size() is the number  *)
(* of records tagged occupied.                                              *)
StoppedRecovery ==
    [][(/\ Called("open") /\ open(arg, "ok")
        /\ result.op \in {"insert_stopped", "erase_stopped"})
           => /\ result'.ok
              /\ DOMAIN occupied_indices_' \subseteq
                    DOMAIN written \cup
                    (IF result.op = "insert_stopped"
                     THEN {key_of(result.arg)} ELSE {})
              /\ size' = Cardinality(Tagged')]_vars

(* C31: a file that create(path, n) left, n >= 1, is accepted by           *)
(* open(path, n): the store has capacity n and size 0, its occupied ring   *)
(* is empty and its free ring is the slots 2 .. n + 1, read where open     *)
(* takes the header and the record array.                                  *)
CreateOpenLinked ==
    [][/\ MapCalled("open")
       /\ map_result'.arg >= 1
       /\ map_result'.error # "os_error"
       /\ linked_path.exists
       /\ linked_path.words = created_words(map_result'.arg)
       => /\ map_result'.ok
          /\ map_capacity' = map_result'.arg
          /\ header_size' = 0
          /\ iteration(linked_path'.words, HeaderWords) = <<>>
          /\ free_ring(linked_path'.words, HeaderWords)
                = [i \in 1..map_result'.arg |-> i + 1]]_vars

(* C34: add, called by insert or insert_or_assign for a key that is not    *)
(* present, returns 0 when the free ring is empty and then changes no      *)
(* word of the file; otherwise it returns an index in 2 .. capacity + 1    *)
(* that was on the free ring, puts it at the head of the occupied ring and *)
(* adds one to the header's size.                                          *)
AddResult ==
    [][/\ MapCalled("insert") \/ MapCalled("insert_or_assign")
       /\ key_of(map_result'.arg) \notin DOMAIN indices_
       /\ map_result'.error # "undefined"
       => LET w == linked_path.words
              b == storage_.records_
              index == indices_'[key_of(map_result'.arg)]
          IN  IF NoFreeSlot
              THEN /\ map_result'.error = "storage_is_full"
                   /\ linked_path' = linked_path
              ELSE /\ map_result'.ok
                   /\ index \in 2..(map_capacity + 1)
                   /\ index \in Range(free_ring(w, b))
                   /\ iteration(linked_path'.words, b) = <<index>> \o iteration(w, b)
                   /\ header_size' = header_size + 1]_vars

(* C38: in a live store every slot is the next of its previous and the     *)
(* previous of its next, and every slot 2 .. capacity + 1 is on exactly    *)
(* one of the ring from slot 0 and the ring from slot 1.                   *)
RingsConsistent ==
    storage_.file_ =>
        LET w == linked_path.words
            b == storage_.records_
        IN  /\ \A i \in 0..(map_capacity + 1) :
                 /\ Inside(w, b, i)
                 /\ Get(w, b, Get(w, b, i, previous), next) = i
                 /\ Get(w, b, Get(w, b, i, next), previous) = i
            /\ \A i \in 2..(map_capacity + 1) :
                 (i \in Range(iteration(w, b))) # (i \in Range(free_ring(w, b)))

(* C39: in a live map the header's size, the number of slots on the        *)
(* occupied ring and map::size() are one number.                           *)
CountsAgree ==
    storage_.file_ =>
        LET visited == iteration(linked_path.words, storage_.records_)
        IN  /\ -1 \notin Range(visited)
            /\ header_size = Len(visited)
            /\ map_size = header_size

TypeOK ==
    /\ path_exists \in BOOLEAN
    /\ path_size \in Nat
    /\ mapped_file_ \in BOOLEAN
    /\ DOMAIN occupied_indices_ \subseteq Keys
    /\ free_capacity \in Capacities

====
